---- MODULE Spec2Model ----
(***************************************************************************)
(* Model of the schema and coercion layer of financial-extractor           *)
(* (src/models.py): the numeric and date coercions applied by the          *)
(* validators of FundExposure and AssetSnapshot, and the validation of a   *)
(* candidate record.                                                       *)
(*                                                                         *)
(* A Python str is a sequence of one-character strings.  A value is a      *)
(* record tagged by its field t:                                           *)
(*   [t |-> "none"]                            None (Unset)                *)
(*   [t |-> "str", s |-> <<chars>>]            a str                       *)
(*   [t |-> "int", n |-> i]                    an int                      *)
(*   [t |-> "dec", sign, coef, exp]            a decimal.Decimal           *)
(*   [t |-> "date", y, m, d]                   a datetime.date             *)
(*   [t |-> "raise", exc |-> name]             an exception leaving the    *)
(*                                             function                    *)
(*   [t |-> "pending"]                         not computed yet            *)
(*   [t |-> "absent"]                          a key a mapping lacks       *)
(*   [t |-> "list", items |-> <<...>>]         a list                      *)
(*   [t |-> "enum", cls, name, s]              a member of an Enum class   *)
(*   [t |-> "model", cls, v |-> [field |-> value]]  a validated model      *)
(***************************************************************************)
EXTENDS Integers, Sequences, FiniteSets, TLC

VARIABLES
    fn,     \* the coercion under test: "decimal" or "date" ("record": validation)
    raw,    \* the value handed to the coercion
    out,    \* what the coercion returned or raised
    again,  \* what the coercion returns when applied to its own result
    cand,   \* the candidate record handed to FundExposure validation
    vout,   \* what the validation returned or raised
    caller, \* who runs the pipeline: "cli" (main) or "mcp" (_process_documents_sync)
    pc,     \* the stage of the pipeline that is running
    mds,    \* the markdown documents: what the extraction gives for each
    outdir, \* the JSON files of the output folder, by name
    fm,     \* field_matching: the index of the next document
    reported, \* field_matching: the documents whose failure was printed
    ex,     \* export_excel: the index of the next JSON file
    all_rows, \* export_excel: the rows gathered so far
    skipped,  \* export_excel: the files reported as skipped
    final,  \* what export_excel returned
    outcome, \* what the caller of the pipeline returned or raised
    urls,   \* the URLs given to download_supabase_s3_documents
    task,   \* the position of each download_one task
    target, \* the target path chosen by each task
    reports, \* the files of the reports directory: the URL each holds
    errors, \* state.errors: the URLs whose download failed, in order
    status, \* state.status
    final_excel, \* state.final_excel
    presult, \* what the last call of process_documents returned or raised
    pd,     \* the position of each caller in process_documents
    lock,   \* state.lock: the caller that holds it, or "free"
    executed, \* how many times _process_documents_sync was started
    calls,  \* how many calls of process_documents were made
    registered, \* the run is in RUNS
    base_dir \* the directory of the run exists

vars == <<fn, raw, out, again, cand, vout>>

pipeVars == <<caller, pc, mds, outdir, fm, reported, ex, all_rows, skipped, final, outcome>>

runVars ==
    <<urls, task, target, reports, errors, status, final_excel, presult,
      pd, lock, executed, calls, registered, base_dir>>

allvars == <<vars, pipeVars, runVars>>

\* no run of the server exists
RunIdle ==
    /\ urls = <<>>
    /\ task = <<>>
    /\ target = <<>>
    /\ reports = <<>>
    /\ errors = <<>>
    /\ status = "idle"
    /\ final_excel = [t |-> "none"]
    /\ presult = [t |-> "pending"]
    /\ pd = <<>>
    /\ lock = "free"
    /\ executed = 0
    /\ calls = 0
    /\ registered = FALSE
    /\ base_dir = FALSE

\* no pipeline is running
PipelineIdle ==
    /\ caller = "none"
    /\ pc = "idle"
    /\ mds = <<>>
    /\ outdir = <<>>
    /\ fm = 0
    /\ reported = {}
    /\ ex = 0
    /\ all_rows = <<>>
    /\ skipped = {}
    /\ final = [t |-> "pending"]
    /\ outcome = [t |-> "pending"]

NoneV == [t |-> "none"]
Pending == [t |-> "pending"]
StrV(s) == [t |-> "str", s |-> s]
IntV(n) == [t |-> "int", n |-> n]
Raise(e) == [t |-> "raise", exc |-> e]
DecV(sign, coef, exp) == [t |-> "dec", sign |-> sign, coef |-> coef, exp |-> exp]
DateV(y, m, d) == [t |-> "date", y |-> y, m |-> m, d |-> d]
NoCand == <<>>

(***************************************************************************)
(* str methods used by the coercions.                                      *)
(***************************************************************************)
UpperLetters == <<"A","B","C","D","E","F","G","H","I","J","K","L","M",
                  "N","O","P","Q","R","S","T","U","V","W","X","Y","Z">>
LowerLetters == <<"a","b","c","d","e","f","g","h","i","j","k","l","m",
                  "n","o","p","q","r","s","t","u","v","w","x","y","z">>
DigitChars == <<"0","1","2","3","4","5","6","7","8","9">>

UpperSet == {UpperLetters[i] : i \in 1..26}
LowerSet == {LowerLetters[i] : i \in 1..26}
DigitSet == {DigitChars[i] : i \in 1..10}
ToLower == [c \in UpperSet |-> LowerLetters[CHOOSE i \in 1..26 : UpperLetters[i] = c]]
ToUpper == [c \in LowerSet |-> UpperLetters[CHOOSE i \in 1..26 : LowerLetters[i] = c]]
DigitOf == [c \in DigitSet |-> (CHOOSE i \in 1..10 : DigitChars[i] = c) - 1]

\* str.lower() and str.upper() on one character
LowerChar(c) == IF c \in UpperSet THEN ToLower[c] ELSE c
UpperChar(c) == IF c \in LowerSet THEN ToUpper[c] ELSE c

Lower(s) == [i \in 1..Len(s) |-> LowerChar(s[i])]

IsSpace(c) == c \in {" ", "\t", "\n"}
IsDigit(c) == c \in DigitSet
IsWordChar(c) == c \in DigitSet \cup UpperSet \cup LowerSet \cup {"_"}
DigitVal(c) == DigitOf[c]

\* s[a:b] with 0-based, end-exclusive Python indices already clamped to 0..Len(s)
Slice(s, a, b) == IF b <= a THEN <<>> ELSE SubSeq(s, a + 1, b)
DropLast(s, k) == Slice(s, 0, Len(s) - k)

\* the k-th smallest element of a set of integers
Kth(S, k) == CHOOSE x \in S : Cardinality({y \in S : y <= x}) = k

\* str.lstrip(), str.rstrip(), str.strip()
LStrip(s) ==
    LET ink == {i \in 1..Len(s) : ~IsSpace(s[i])}
    IN  IF ink = {} THEN <<>> ELSE SubSeq(s, Kth(ink, 1), Len(s))
RStrip(s) ==
    LET ink == {i \in 1..Len(s) : ~IsSpace(s[i])}
    IN  IF ink = {} THEN <<>> ELSE SubSeq(s, 1, Kth(ink, Cardinality(ink)))
Strip(s) == RStrip(LStrip(s))

\* s.replace(c, "") for a one-character c
Remove(s, c) == SelectSeq(s, LAMBDA x : x # c)

EndsWith(s, suf) ==
    /\ Len(suf) <= Len(s)
    /\ SubSeq(s, Len(s) - Len(suf) + 1, Len(s)) = suf

StartsWith(s, pre) ==
    /\ Len(pre) <= Len(s)
    /\ SubSeq(s, 1, Len(pre)) = pre

\* index of the first character of s that is in C, 0 when there is none
FirstIn(s, C) ==
    IF \E i \in 1..Len(s) : s[i] \in C
    THEN CHOOSE i \in 1..Len(s) : s[i] \in C /\ \A j \in 1..(i - 1) : s[j] \notin C
    ELSE 0

AllDigits(s) == \A i \in 1..Len(s) : IsDigit(s[i])

Zeros(k) == [i \in 1..k |-> 0]

\* str(int(digits)): the digits without leading zeros
StripLeadingZeros(ds) ==
    LET nz == {i \in 1..Len(ds) : ds[i] # 0}
    IN  IF nz = {} THEN <<0>> ELSE SubSeq(ds, Kth(nz, 1), Len(ds))

\* int(s) of a string of digits
ToNat(s) ==
    LET f[i \in 0..Len(s)] == IF i = 0 THEN 0 ELSE 10 * f[i - 1] + DigitVal(s[i])
    IN  f[Len(s)]

(***************************************************************************)
(* decimal.Decimal.  A Decimal is sign, coefficient (its decimal digits,   *)
(* most significant first, no leading zero except for 0 itself) and        *)
(* exponent: (-1)^sign * coef * 10^exp.  Arithmetic is carried out in the  *)
(* default context: Prec significant digits, ROUND_HALF_EVEN.              *)
(***************************************************************************)
Prec == 28

IsZeroCoef(ds) == \A i \in 1..Len(ds) : ds[i] = 0

\* int(str) of the exponent text [-+]?\d+ ; 0 for no exponent
ExpVal(e) ==
    IF e = <<>> THEN 0
    ELSE IF e[1] = "-" THEN 0 - ToNat(Tail(e))
    ELSE IF e[1] = "+" THEN ToNat(Tail(e))
    ELSE ToNat(e)

ExpOk(e) ==
    LET d == IF e # <<>> /\ e[1] \in {"-", "+"} THEN Tail(e) ELSE e
    IN  d # <<>> /\ AllDigits(d)

\* Decimal(str): value.strip().replace("_", "") against the numeric syntax
\*   [-+]? (?=\d|\.\d) \d* (\.\d*)? (E[-+]?\d+)?
\* The special values (Inf, Infinity, NaN, sNaN) need the letters n, i, f, which
\* no input of this model contains.
SignOf(v) == IF v # <<>> /\ v[1] = "-" THEN 1 ELSE 0
Unsigned(v) == IF v # <<>> /\ v[1] \in {"-", "+"} THEN Tail(v) ELSE v

\* what stands before and after position i of s; all and nothing for i = 0
Before(s, i) == IF i = 0 THEN s ELSE SubSeq(s, 1, i - 1)
After(s, i) == IF i = 0 THEN <<>> ELSE SubSeq(s, i + 1, Len(s))

DigitVals(s) == [i \in 1..Len(s) |-> DigitVal(s[i])]

\* the groups of the match: integer digits, fraction digits, exponent
DecFromParts(sign, intp, frac, hasExp, expo) ==
    IF /\ AllDigits(intp)
       /\ AllDigits(frac)
       /\ Len(intp) + Len(frac) >= 1
       /\ hasExp => ExpOk(expo)
    THEN DecV(sign, StripLeadingZeros(DigitVals(intp \o frac)), ExpVal(expo) - Len(frac))
    ELSE Raise("InvalidOperation")

\* the mantissa split at its decimal point
DecFromMantissa(sign, mant, hasExp, expo) ==
    DecFromParts(sign, Before(mant, FirstIn(mant, {"."})), After(mant, FirstIn(mant, {"."})),
                 hasExp, expo)

\* the unsigned numeral split at its exponent marker
DecFromBody(sign, body) ==
    DecFromMantissa(sign, Before(body, FirstIn(body, {"E", "e"})),
                    FirstIn(body, {"E", "e"}) # 0, After(body, FirstIn(body, {"E", "e"})))

PyDecimal(s) ==
    DecFromBody(SignOf(Remove(Strip(s), "_")), Unsigned(Remove(Strip(s), "_")))

\* coefficient + 1
Incr(ds) ==
    LET n9 == {i \in 1..Len(ds) : ds[i] # 9}
        k == IF n9 = {} THEN 0 ELSE Kth(n9, Cardinality(n9))
    IN  IF k = 0 THEN <<1>> \o Zeros(Len(ds))
        ELSE SubSeq(ds, 1, k - 1) \o <<ds[k] + 1>> \o Zeros(Len(ds) - k)

\* Decimal._fix: round a finite result to the context precision (half even)
Fix(d) ==
    IF IsZeroCoef(d.coef) \/ Len(d.coef) <= Prec THEN d
    ELSE
      LET keep == SubSeq(d.coef, 1, Prec)
          rest == SubSeq(d.coef, Prec + 1, Len(d.coef))
          half == rest[1] = 5 /\ \A i \in 2..Len(rest) : rest[i] = 0
          up == IF half THEN keep[Prec] % 2 = 1 ELSE rest[1] >= 5
          c1 == IF up THEN Incr(keep) ELSE keep
          e1 == d.exp + Len(rest)
      IN  IF Len(c1) > Prec
          THEN DecV(d.sign, DropLast(c1, 1), e1 + 1)
          ELSE DecV(d.sign, c1, e1)

\* the number of zeros that end the coefficient c
TrailingZeros(c) ==
    LET nz == {i \in 1..Len(c) : c[i] # 0}
    IN  IF nz = {} THEN Len(c) - 1 ELSE Len(c) - Kth(nz, Cardinality(nz))

\* the exact quotient brought as close to the ideal exponent as its zeros allow
TowardIdeal(c, e, ideal) ==
    LET k == IF ideal - e < TrailingZeros(c) THEN ideal - e ELSE TrailingZeros(c)
    IN  IF k <= 0 THEN <<c, e>> ELSE <<DropLast(c, k), e + k>>

\* Decimal.__truediv__ by Decimal("1" followed by k zeros)
DecDivPow10(a, k) ==
    IF IsZeroCoef(a.coef) THEN DecV(a.sign, <<0>>, a.exp)
    ELSE
      LET n == Len(a.coef)
          shift == (k + 1) - n + Prec + 1
          e0 == a.exp - shift
          z == shift - k
          q == IF z >= 0 THEN a.coef \o Zeros(z) ELSE DropLast(a.coef, 0 - z)
          dropped == IF z >= 0 THEN <<>> ELSE SubSeq(a.coef, n + z + 1, n)
          rem == ~IsZeroCoef(dropped)
          sticky == IF rem /\ q[Len(q)] \in {0, 5}
                    THEN DropLast(q, 1) \o <<q[Len(q)] + 1>> ELSE q
          ce == IF rem THEN <<sticky, e0>> ELSE TowardIdeal(q, e0, a.exp)
      IN  Fix(DecV(a.sign, ce[1], ce[2]))

\* Decimal.__mul__ by Decimal("1e<k>")
DecMulPow10(a, k) ==
    IF IsZeroCoef(a.coef) THEN DecV(a.sign, <<0>>, a.exp + k)
    ELSE Fix(DecV(a.sign, a.coef, a.exp + k))

\* str(n) of an int 0 <= n < 10^9
NatDigits(n) ==
    LET k == CHOOSE j \in 1..9 : n < 10^j /\ (j = 1 \/ n >= 10^(j - 1))
    IN  [i \in 1..k |-> DigitChars[((n \div 10^(k - i)) % 10) + 1]]

IntStr(i) == IF i < 0 THEN <<"-">> \o NatDigits(0 - i) ELSE NatDigits(i)

\* the digits alone, sign and exponent lost
DecStr_DigitsOnly(d) == [i \in 1..Len(d.coef) |-> DigitChars[d.coef[i] + 1]]

\* str(Decimal): scientific notation when exp > 0 or the value is below 1e-6
DecStr(d) ==
    LET digs == [i \in 1..Len(d.coef) |-> DigitChars[d.coef[i] + 1]]
        n == Len(digs)
        leftdigits == d.exp + n
        dotplace == IF d.exp <= 0 /\ leftdigits > -6 THEN leftdigits ELSE 1
        zs(k) == [i \in 1..k |-> "0"]
        intpart == IF dotplace <= 0 THEN <<"0">>
                   ELSE IF dotplace >= n THEN digs \o zs(dotplace - n)
                   ELSE SubSeq(digs, 1, dotplace)
        fracpart == IF dotplace <= 0 THEN <<".">> \o zs(0 - dotplace) \o digs
                    ELSE IF dotplace >= n THEN <<>>
                    ELSE <<".">> \o SubSeq(digs, dotplace + 1, n)
        e == leftdigits - dotplace
        exptxt == IF e = 0 THEN <<>>
                  ELSE <<"E">> \o (IF e > 0 THEN <<"+">> ELSE <<>>) \o IntStr(e)
    IN  (IF d.sign = 1 THEN <<"-">> ELSE <<>>) \o intpart \o fracpart \o exptxt

\* str(v) of the values the coercions are handed
PyStr(v) ==
    CASE v.t = "str" -> v.s
      [] v.t = "int" -> IntStr(v.n)
      [] v.t = "dec" -> DecStr(v)
      [] OTHER -> <<>>

(***************************************************************************)
(* _to_decimal                                                             *)
(***************************************************************************)
\* M and B exchanged
KMB_Exchanged == [K |-> 3, M |-> 9, B |-> 6]

\* _KMB: the power of ten of each magnitude suffix
_KMB == [K |-> 3, M |-> 6, B |-> 9]

\* the arithmetic applied to Decimal(num): the constructor raises
\* InvalidOperation outside any try block in the suffix branches
Arith(d, op, k) ==
    IF d.t = "raise" THEN d
    ELSE IF op = "div" THEN DecDivPow10(d, k)
    ELSE IF op = "mul" THEN DecMulPow10(d, k)
    ELSE d

Scaled(num, op, k) == Arith(PyDecimal(num), op, k)

\* try: return Decimal(s2) except InvalidOperation: return None
Guarded(d) == IF d.t = "raise" THEN NoneV ELSE d

\* the magnitude suffix and the plain number, on s2: s without , $ € £
ToDecimalBare(s2) ==
    IF s2 # <<>> /\ UpperChar(s2[Len(s2)]) \in DOMAIN _KMB
    THEN Scaled(DropLast(s2, 1), "mul", _KMB[UpperChar(s2[Len(s2)])])
    ELSE Guarded(PyDecimal(s2))

\* the suffix rules in the order of the code, on s = str(v).strip()
ToDecimalStr(s) ==
    IF EndsWith(s, <<"%">>)
    THEN Scaled(Remove(Strip(DropLast(s, 1)), ","), "div", 2)
    ELSE IF EndsWith(Lower(s), <<"b", "p">>)
    THEN Scaled(Remove(Strip(DropLast(s, 2)), ","), "div", 4)
    ELSE IF EndsWith(Lower(s), <<"x">>)
    THEN Scaled(Remove(Strip(DropLast(s, 1)), ","), "id", 0)
    ELSE ToDecimalBare(Remove(Remove(Remove(Remove(s, ","), "$"), "€"), "£"))

_to_decimal(v) ==
    IF v.t = "none" \/ (v.t = "str" /\ v.s = <<>>) THEN NoneV
    ELSE IF v.t \in {"int", "dec"} THEN PyDecimal(PyStr(v))
    ELSE ToDecimalStr(Strip(PyStr(v)))

(***************************************************************************)
(* Inputs of the numeric coercion.                                         *)
(***************************************************************************)
MaxBody == 3
LongSpan == 1

BodyChars == {"1", "5", "0", ".", ",", "$", "-", " ", "a", "E"}
Suffixes == {<<>>, <<"%">>, <<"b","p">>, <<"B","P">>, <<"B","p">>, <<"b","P">>,
             <<"x">>, <<"X">>, <<"K">>, <<"k">>, <<"M">>, <<"m">>,
             <<"B">>, <<"b">>, <<"p">>, <<" ">>, <<"€">>}

Bodies == UNION {[1..n -> BodyChars] : n \in 0..MaxBody}

Rep(c, n) == [i \in 1..n |-> c]

\* numerals whose digit count straddles the context precision
LongBodies == {Rep(c, n) \o t : c \in {"9", "5"},
                                n \in (Prec - LongSpan)..(Prec + LongSpan),
                                t \in {<<>>, <<"5">>, <<".", "5">>}}

DecStrings == {b \o suf : b \in Bodies \cup LongBodies, suf \in Suffixes}

InitDecimal ==
    /\ fn = "decimal"
    /\ \/ raw \in {StrV(s) : s \in DecStrings}
       \/ raw = NoneV
       \/ raw \in {IntV(n) : n \in -2..12}
    /\ out = Pending
    /\ again = Pending
    /\ cand = NoCand
    /\ vout = Pending
    /\ PipelineIdle
    /\ RunIdle

\* a field validator hands the raw value to _to_decimal
CoerceDecimal ==
    /\ fn = "decimal"
    /\ out = Pending
    /\ out' = _to_decimal(raw)
    /\ UNCHANGED <<fn, raw, again, cand, vout>>
    /\ UNCHANGED <<pipeVars, runVars>>

\* the coercion applied to a value it produced
RecoerceDecimal ==
    /\ fn = "decimal"
    /\ out.t = "dec"
    /\ again = Pending
    /\ again' = _to_decimal(out)
    /\ UNCHANGED <<fn, raw, out, cand, vout>>
    /\ UNCHANGED <<pipeVars, runVars>>

NextDecimal == CoerceDecimal \/ RecoerceDecimal

SpecDecimal == InitDecimal /\ [][NextDecimal]_allvars

(***************************************************************************)
(* datetime.date, calendar.monthrange and datetime.strptime as             *)
(* _parse_iso_or_quarter uses them.                                        *)
(***************************************************************************)
MINYEAR == 1
MAXYEAR == 9999

isleap(y) == y % 4 = 0 /\ (y % 100 # 0 \/ y % 400 = 0)

mdays == <<31, 28, 31, 30, 31, 30, 31, 31, 30, 31, 30, 31>>

\* calendar.monthrange(y, m)[1]; it accepts years outside MINYEAR..MAXYEAR
monthrange(y, m) == mdays[m] + (IF m = 2 /\ isleap(y) THEN 1 ELSE 0)

\* date(y, m, d): ValueError outside the calendar
PyDate(y, m, d) ==
    IF /\ y >= MINYEAR /\ y <= MAXYEAR
       /\ m >= 1 /\ m <= 12
       /\ d >= 1 /\ d <= monthrange(y, m)
    THEN DateV(y, m, d)
    ELSE Raise("ValueError")

Pad(s, n) == [i \in 1..(n - Len(s)) |-> "0"] \o s

\* str(date): isoformat, %04d-%02d-%02d
DateStr(v) ==
    Pad(NatDigits(v.y), 4) \o <<"-">> \o Pad(NatDigits(v.m), 2) \o <<"-">> \o Pad(NatDigits(v.d), 2)

MonthNames == << <<"j","a","n","u","a","r","y">>, <<"f","e","b","r","u","a","r","y">>,
                 <<"m","a","r","c","h">>, <<"a","p","r","i","l">>, <<"m","a","y">>,
                 <<"j","u","n","e">>, <<"j","u","l","y">>, <<"a","u","g","u","s","t">>,
                 <<"s","e","p","t","e","m","b","e","r">>, <<"o","c","t","o","b","e","r">>,
                 <<"n","o","v","e","m","b","e","r">>, <<"d","e","c","e","m","b","e","r">> >>

\* the strptime directives: %Y is \d\d\d\d, %m is 1[0-2]|0[1-9]|[1-9],
\* %d is 3[0-1]|[1-2]\d|0[1-9]|[1-9]| [1-9]
TokY(t) == Len(t) = 4 /\ AllDigits(t)
TokM(t) ==
    \/ Len(t) = 1 /\ IsDigit(t[1]) /\ t[1] # "0"
    \/ Len(t) = 2 /\ t[1] = "0" /\ IsDigit(t[2]) /\ t[2] # "0"
    \/ Len(t) = 2 /\ t[1] = "1" /\ t[2] \in {"0", "1", "2"}
TokD(t) ==
    \/ Len(t) = 1 /\ IsDigit(t[1]) /\ t[1] # "0"
    \/ Len(t) = 2 /\ t[1] \in {"0", " "} /\ IsDigit(t[2]) /\ t[2] # "0"
    \/ Len(t) = 2 /\ t[1] \in {"1", "2"} /\ IsDigit(t[2])
    \/ Len(t) = 2 /\ t[1] = "3" /\ t[2] \in {"0", "1"}
TokVal(t) == ToNat(Remove(t, " "))

\* s.split(c): the parts of s between the occurrences of c
SplitOn(s, c) ==
    LET seps == {i \in 1..Len(s) : s[i] = c}
        n == Cardinality(seps)
        pos(k) == IF k = 0 THEN 0 ELSE IF k = n + 1 THEN Len(s) + 1 ELSE Kth(seps, k)
    IN  [k \in 1..(n + 1) |-> SubSeq(s, pos(k - 1) + 1, pos(k) - 1)]

\* %B at the head of s (case-insensitive): the month number, 0 when none matches
HeadMonth(s) ==
    IF \E k \in 1..12 : StartsWith(Lower(s), MonthNames[k])
    THEN CHOOSE k \in 1..12 : StartsWith(Lower(s), MonthNames[k])
    ELSE 0

NoMatch == Raise("ValueError")

\* "%B %d, %Y": month name, \s+, day, a comma, \s+, year
StrpMonthDayYear(s) ==
    LET k == HeadMonth(s)
        r == IF k = 0 THEN <<>> ELSE SubSeq(s, Len(MonthNames[k]) + 1, Len(s))
        c == FirstIn(r, {","})
        dpart == IF c = 0 THEN <<>> ELSE SubSeq(r, 1, c - 1)
        ypart == IF c = 0 THEN <<>> ELSE SubSeq(r, c + 1, Len(r))
        dtok == LStrip(dpart)
        ytok == LStrip(ypart)
    IN  IF /\ k # 0 /\ c # 0
           /\ Len(dtok) < Len(dpart) /\ TokD(dtok) /\ dtok[1] # " "
           /\ Len(ytok) < Len(ypart) /\ TokY(ytok)
        THEN PyDate(ToNat(ytok), k, TokVal(dtok))
        ELSE NoMatch

\* "%d %B %Y": day, \s+, month name, \s+, year
StrpDayMonthYear(s) ==
    LET w == FirstIn(s, {" ", "\t", "\n"})
        lead == w = 1 /\ Len(s) >= 2 /\ s[1] = " " /\ IsDigit(s[2])
        dlen == IF lead THEN 2 ELSE IF w = 0 THEN Len(s) ELSE w - 1
        dtok == SubSeq(s, 1, dlen)
        r1 == SubSeq(s, dlen + 1, Len(s))
        r2 == LStrip(r1)
        k == HeadMonth(r2)
        r3 == IF k = 0 THEN <<>> ELSE SubSeq(r2, Len(MonthNames[k]) + 1, Len(r2))
        ytok == LStrip(r3)
    IN  IF /\ TokD(dtok) /\ Len(r2) < Len(r1) /\ k # 0
           /\ Len(ytok) < Len(r3) /\ TokY(ytok)
        THEN PyDate(ToNat(ytok), k, TokVal(dtok))
        ELSE NoMatch

\* datetime.strptime(s, f).date(): the whole of s must match the format
strptime(s, f) ==
    CASE f = "%Y-%m-%d" ->
           LET p == SplitOn(s, "-")
           IN  IF Len(p) = 3 /\ TokY(p[1]) /\ TokM(p[2]) /\ TokD(p[3])
               THEN PyDate(ToNat(p[1]), TokVal(p[2]), TokVal(p[3])) ELSE NoMatch
      [] f = "%Y-%m" ->
           LET p == SplitOn(s, "-")
           IN  IF Len(p) = 2 /\ TokY(p[1]) /\ TokM(p[2])
               THEN PyDate(ToNat(p[1]), TokVal(p[2]), 1) ELSE NoMatch
      [] f = "%d/%m/%Y" ->
           LET p == SplitOn(s, "/")
           IN  IF Len(p) = 3 /\ TokD(p[1]) /\ TokM(p[2]) /\ TokY(p[3])
               THEN PyDate(ToNat(p[3]), TokVal(p[2]), TokVal(p[1])) ELSE NoMatch
      [] f = "%m/%d/%Y" ->
           LET p == SplitOn(s, "/")
           IN  IF Len(p) = 3 /\ TokM(p[1]) /\ TokD(p[2]) /\ TokY(p[3])
               THEN PyDate(ToNat(p[3]), TokVal(p[1]), TokVal(p[2])) ELSE NoMatch
      [] f = "%B %d, %Y" -> StrpMonthDayYear(s)
      [] f = "%d %B %Y" -> StrpDayMonthYear(s)
      [] OTHER -> NoMatch

(***************************************************************************)
(* _parse_iso_or_quarter                                                   *)
(***************************************************************************)
\* re.match(r"Q([1-4])\s+(\d{4})", s, re.I): a match at the head of s; what
\* follows the four digits is not looked at.  <<q, y>>, or <<>> for no match.
QuarterMatch(s) ==
    LET r == IF Len(s) >= 2 THEN SubSeq(s, 3, Len(s)) ELSE <<>>
        t == LStrip(r)
    IN  IF /\ Len(s) >= 2
           /\ s[1] \in {"Q", "q"}
           /\ s[2] \in {"1", "2", "3", "4"}
           /\ Len(t) < Len(r)
           /\ Len(t) >= 4 /\ AllDigits(SubSeq(t, 1, 4))
        THEN <<DigitVal(s[2]), ToNat(SubSeq(t, 1, 4))>>
        ELSE <<>>

\* the first month of the quarter instead of the last
QuarterMonth_First(q) == 3 * q - 2

\* {1:3, 2:6, 3:9, 4:12}[q]
QuarterMonth(q) == 3 * q

AsOf == <<"a", "s", " ", "o", "f">>

\* re.sub(r"(?i)\bas of\b", "", s): every occurrence between word boundaries
\* is removed (two occurrences of "as of" cannot overlap)
SubAsOf(s) ==
    LET hit == {i \in 1..(Len(s) - 4) :
                   /\ \A j \in 1..5 : LowerChar(s[i + j - 1]) = AsOf[j]
                   /\ (i = 1 \/ ~IsWordChar(s[i - 1]))
                   /\ (i + 5 > Len(s) \/ ~IsWordChar(s[i + 5]))}
        keep == {i \in 1..Len(s) : \A h \in hit : i < h \/ i > h + 4}
    IN  [k \in 1..Cardinality(keep) |-> s[Kth(keep, k)]]

\* month/day/year tried before day/month/year
fmts_MonthFirst == <<"%Y-%m-%d", "%Y-%m", "%m/%d/%Y", "%d/%m/%Y", "%B %d, %Y", "%d %B %Y">>

fmts == <<"%Y-%m-%d", "%Y-%m", "%d/%m/%Y", "%m/%d/%Y", "%B %d, %Y", "%d %B %Y">>

\* the loop over fmts: the first format that parses returns; ValueError moves on
TryFormats(s) ==
    LET ok == {i \in 1..Len(fmts) : strptime(s, fmts[i]).t # "raise"}
        f == fmts[Kth(ok, 1)]
        dt == strptime(s, f)
    IN  IF ok = {} THEN NoneV
        ELSE IF f = "%Y-%m" THEN PyDate(dt.y, dt.m, monthrange(dt.y, dt.m))
        ELSE dt

_parse_iso_or_quarter(v) ==
    IF v.t = "none" \/ (v.t = "str" /\ v.s = <<>>) THEN NoneV
    ELSE
      LET s == Strip(IF v.t = "date" THEN DateStr(v) ELSE PyStr(v))
          m == QuarterMatch(s)
      IN  IF m # <<>>
          THEN PyDate(m[2], QuarterMonth(m[1]), monthrange(m[2], QuarterMonth(m[1])))
          ELSE TryFormats(Strip(SubAsOf(s)))

(***************************************************************************)
(* Inputs of the date coercion: strings in and around the recognized       *)
(* formats, with in-range and out-of-range components.                     *)
(***************************************************************************)
MaxGap == 2

Years == {<<"0","0","0","0">>, <<"0","0","0","1">>, <<"1","9","0","0">>,
          <<"2","0","0","0">>, <<"2","0","2","3">>, <<"2","0","2","4">>}
Parts == {<<"2">>, <<"0","2">>, <<"1","2">>, <<"1","3">>, <<"2","9">>,
          <<"3","0">>, <<"3","1">>, <<"0","0">>, <<" ","2">>}
LongDays == {<<"2">>, <<"2","9">>, <<"3","0">>, <<"3","1">>, <<"3","2">>}
Names == {<<"J","u","n","e">>, <<"f","e","b","r","u","a","r","y">>,
          <<"D","E","C","E","M","B","E","R">>, <<"J","u","n">>}
Gaps == {Rep(" ", n) : n \in 0..MaxGap}

QuarterStrings ==
    {<<c, q>> \o g \o y \o t :
        c \in {"Q", "q"}, q \in {"0", "1", "2", "3", "4", "5"}, g \in Gaps,
        y \in Years, t \in {<<>>, <<"5">>}}
IsoStrings ==
    {y \o <<"-">> \o a \o <<"-">> \o b : y \in Years, a \in Parts, b \in Parts}
    \cup {y \o <<"-">> \o a : y \in Years, a \in Parts}
    \cup {y \o <<"-">> \o Pad(NatDigits(m), 2) : y \in Years, m \in 1..12}
SlashStrings ==
    {a \o <<"/">> \o b \o <<"/">> \o y : y \in Years, a \in Parts, b \in Parts}
LongStrings ==
    {n \o g \o d \o <<",">> \o h \o y :
        n \in Names, g \in Gaps, d \in LongDays, h \in {<<>>, <<" ">>}, y \in Years}
    \cup {d \o g \o n \o <<" ">> \o y :
        n \in Names, g \in Gaps, d \in LongDays, y \in Years}

Prefixes == {<<>>, <<"a","s"," ","o","f"," ">>, <<"A","S"," ","O","f"," "," ">>,
             <<"w","a","s"," ","o","f"," ">>}
Trailers == {<<>>, <<"x">>}

DateStrings ==
    {p \o c \o t : p \in Prefixes, t \in Trailers,
                   c \in QuarterStrings \cup IsoStrings \cup SlashStrings \cup LongStrings}

InitDate ==
    /\ fn = "date"
    /\ \/ raw \in {StrV(s) : s \in DateStrings}
       \/ raw = NoneV
       \/ raw = StrV(<<>>)
    /\ out = Pending
    /\ again = Pending
    /\ cand = NoCand
    /\ vout = Pending
    /\ PipelineIdle
    /\ RunIdle

\* a field validator hands the raw value to _parse_iso_or_quarter
CoerceDate ==
    /\ fn = "date"
    /\ out = Pending
    /\ out' = _parse_iso_or_quarter(raw)
    /\ UNCHANGED <<fn, raw, again, cand, vout>>
    /\ UNCHANGED <<pipeVars, runVars>>

\* the coercion applied to a date it produced
RecoerceDate ==
    /\ fn = "date"
    /\ out.t = "date"
    /\ again = Pending
    /\ again' = _parse_iso_or_quarter(out)
    /\ UNCHANGED <<fn, raw, out, cand, vout>>
    /\ UNCHANGED <<pipeVars, runVars>>

NextDate == CoerceDate \/ RecoerceDate

SpecDate == InitDate /\ [][NextDate]_allvars

(***************************************************************************)
(* The coercions under every input of both families.                       *)
(***************************************************************************)
Init == InitDecimal \/ InitDate

Next == CoerceDecimal \/ RecoerceDecimal \/ CoerceDate \/ RecoerceDate

Spec == Init /\ [][Next]_allvars

(***************************************************************************)
(* Validation of a candidate record (pydantic BaseModel validation of      *)
(* FundExposure and of its AssetSnapshot entries).  A candidate is a       *)
(* mapping from keys to raw values; a key the candidate does not supply    *)
(* maps to Absent.                                                         *)
(***************************************************************************)
Absent == [t |-> "absent"]
ListV(items) == [t |-> "list", items |-> items]
EnumV(cls, m) == [t |-> "enum", cls |-> cls, name |-> m.name, s |-> m.value]
ModelV(cls, v) == [t |-> "model", cls |-> cls, v |-> v]
ValidationError(errs) == [t |-> "raise", exc |-> "ValidationError", errors |-> errs]

\* the outcome of validating one value: the validated value, a set of line
\* errors (location and type), or an exception that is not a validation error
Ok(v) == [k |-> "ok", v |-> v, errs |-> {}, exc |-> ""]
Err(type) == [k |-> "err", v |-> NoneV, errs |-> {[loc |-> <<>>, type |-> type]}, exc |-> ""]
Errs(errs) == [k |-> "err", v |-> NoneV, errs |-> errs, exc |-> ""]
Exc(e) == [k |-> "exc", v |-> NoneV, errs |-> {}, exc |-> e]

\* the enumerations: the members of each class in definition order, each with
\* its name and its value (the canonical display string)
Member(name, value) == [name |-> name, value |-> value]

Enums ==
    [ InstrumentStrategy |-> <<
          Member("EQUITY", <<"E","q","u","i","t","y">>),
          Member("CORPORATE_DEBT", <<"C","o","r","p","o","r","a","t","e"," ","D","e","b","t">>) >>,
      HedgingStrategy |-> <<
          Member("YES", <<"Y","e","s">>),
          Member("NO", <<"N","o">>),
          Member("EXPECTED", <<"E","x","p","e","c","t","e","d">>) >>,
      UnderlyingFundStrategy |-> <<
          Member("VC", <<"V",".","C",".">>),
          Member("GROWTH", <<"G","r","o","w","t","h">>),
          Member("BUYOUT", <<"B","u","y","o","u","t">>),
          Member("L_BUYOUT", <<"L","."," ","B","u","y","o","u","t">>),
          Member("ASIA", <<"A","s","i","a">>),
          Member("DIRETTO", <<"D","i","r","e","t","t","o">>),
          Member("SENIOR", <<"S","e","n","i","o","r">>),
          Member("UNI_TRANCHE", <<"U","n","i","-","T","r","a","n","c","h","e">>),
          Member("MEZZANINE", <<"M","e","z","z","a","n","i","n","e">>),
          Member("JUNIOR", <<"J","u","n","i","o","r">>),
          Member("PREFERRED_EQUITY", <<"P","r","e","f","e","r","r","e","d"," ","E","q","u","i","t","y">>),
          Member("REFIN", <<"R","e","F","i","n">>),
          Member("EQUITY", <<"E","q","u","i","t","y">>),
          Member("PIK", <<"P","I","K">>),
          Member("NAV_LENDING", <<"N","A","V"," ","L","e","n","d","i","n","g">>),
          Member("CLO", <<"C","L","O">>),
          Member("CORE", <<"C","o","r","e">>),
          Member("CORE_PLUS", <<"C","o","r","e","+">>),
          Member("VALUE_ADDED", <<"V","a","l","u","e"," ","A","d","d","e","d">>),
          Member("OPPORTUNISTIC", <<"O","p","p","o","r","t","u","n","i","s","t","i","c">>),
          Member("RE_CREDIT", <<"R","E"," ","C","r","e","d","i","t">>),
          Member("OTHER", <<"O","t","h","e","r">>) >>,
      GeographyMacroarea |-> <<
          Member("EUROPE", <<"E","u","r","o","p","e">>),
          Member("UK", <<"U","K">>),
          Member("N_AMERICA", <<"N","."," ","A","m","e","r","i","c","a">>),
          Member("LATAM", <<"L","a","t","A","m">>),
          Member("CHINA", <<"C","h","i","n","a">>),
          Member("SEA_OCEANIA", <<"S","E","A"," ","&"," ","O","c","e","a","n","i","a">>),
          Member("OTHER", <<"O","t","h","e","r">>) >>,
      MacroSector |-> <<
          Member("EDUCATION", <<"E","d","u","c","a","t","i","o","n">>),
          Member("FIN_SERVICES", <<"F","i","n","a","n","c","i","a","l"," ","S","e","r","v","i","c","e","s">>),
          Member("HEALTH_PHARMA", <<"H","e","a","l","t","h"," ","&"," ","P","h","a","r","m","a">>),
          Member("INDUSTRIAL_BUSINESS", <<"I","n","d","u","s","t","r","i","a","l"," ","&"," ","B","u","s","i","n","e","s","s"," ","S","e","r","v","i","c","e","s">>),
          Member("CONSUMER_RETAIL", <<"C","o","n","s","u","m","e","r"," ","&"," ","R","e","t","a","i","l">>),
          Member("TRAVEL_HOSPITALITY", <<"T","r","a","v","e","l"," ","&"," ","H","o","s","p","i","t","a","l","i","t","y">>),
          Member("SOFTWARE_TECH", <<"S","o","f","t","w","a","r","e"," ","&"," ","T","e","c","h","n","o","l",".">>),
          Member("REAL_ESTATE", <<"R","e","a","l"," ","e","s","t","a","t","e">>),
          Member("OTHER", <<"O","t","h","e","r">>) >>,
      InvestmentType |-> <<
          Member("PRIMARY", <<"P","r","i","m","a","r","y">>),
          Member("SECONDARY", <<"S","e","c","o","n","d","a","r","y">>),
          Member("CO_INV", <<"C","o","-","I","n","v">>) >>,
      RealizationStatus |-> <<
          Member("REALIZED", <<"R","e","a","l","i","z","e","d">>),
          Member("UNREALIZED", <<"U","n","r","e","a","l","i","z","e","d">>) >>,
      RealEstateSegment |-> <<
          Member("RESIDENTIAL", <<"R","e","s","i","d","e","n","t","i","a","l">>),
          Member("OFFICE", <<"O","f","f","i","c","e">>),
          Member("RETAIL", <<"R","e","t","a","i","l">>),
          Member("INDUSTRIAL_LOGISTICS", <<"I","n","d","u","s","t","r","i","a","l"," ","&"," ","L","o","g","i","s","t","i","c","s">>),
          Member("HOTEL", <<"H","o","t","e","l">>),
          Member("MIXED_USE", <<"M","i","x","e","d"," ","U","s","e">>),
          Member("OTHER", <<"O","t","h","e","r">>) >> ]

\* a field declaration: the attribute name, the alias, the kind of its type
\* (date, str, dec for Decimal, enum, list), whether the type is Optional,
\* whether the field has no default, and the enumeration class of an enum field
FieldDecl(name, alias, kind, opt, req, enum) ==
    [name |-> name, alias |-> alias, kind |-> kind, opt |-> opt, req |-> req, enum |-> enum]

AssetSnapshotFields == <<
    FieldDecl("possesso_entry", "Possesso_Entry", "dec", TRUE, FALSE, ""),
    FieldDecl("ev_entry", "EV_Entry", "dec", TRUE, FALSE, ""),
    FieldDecl("ebitda_entry", "EBITDA_Entry", "dec", TRUE, FALSE, ""),
    FieldDecl("margin_entry", "Margin_Entry", "dec", TRUE, FALSE, ""),
    FieldDecl("net_revenue_entry", "Net_Revenue_Entry", "dec", TRUE, FALSE, ""),
    FieldDecl("net_debt_entry", "Net_Debt_Entry", "dec", TRUE, FALSE, ""),
    FieldDecl("fcf_entry", "FCF_Entry", "dec", TRUE, FALSE, ""),
    FieldDecl("net_result_entry", "Net_Result_Entry", "dec", TRUE, FALSE, ""),
    FieldDecl("ev_ebitda_entry", "EVEbitda_Entry", "dec", TRUE, FALSE, ""),
    FieldDecl("ev_revenue_entry", "EVRevenue_Entry", "dec", TRUE, FALSE, ""),
    FieldDecl("net_debt_ebitda_entry", "Net_DebtEbitda_Entry", "dec", TRUE, FALSE, ""),
    FieldDecl("economics_reporting_date", "Economics_Reporting_Date", "date", TRUE, FALSE, ""),
    FieldDecl("possesso", "Possesso", "dec", TRUE, FALSE, ""),
    FieldDecl("ev", "EV", "dec", TRUE, FALSE, ""),
    FieldDecl("ltm_ebitda", "LTM_EBITDA", "dec", TRUE, FALSE, ""),
    FieldDecl("ltm_margin", "LTM_Margin", "dec", TRUE, FALSE, ""),
    FieldDecl("ltm_net_revenues", "LTM_Net_Revenues", "dec", TRUE, FALSE, ""),
    FieldDecl("ltm_net_equity", "LTM_Net_Equity", "dec", TRUE, FALSE, ""),
    FieldDecl("ltm_net_debt", "LTM_Net_Debt", "dec", TRUE, FALSE, ""),
    FieldDecl("ltm_fcf", "LTM_FCF", "dec", TRUE, FALSE, ""),
    FieldDecl("ltm_gross_profit", "LTM_Gross_Profit", "dec", TRUE, FALSE, ""),
    FieldDecl("ltm_net_result", "LTM_Net_Result", "dec", TRUE, FALSE, ""),
    FieldDecl("target_company_de_ratio", "Target_Companys_Debt_Equity_Ratio", "dec", TRUE, FALSE, ""),
    FieldDecl("discount_rate", "Discount_Rate", "dec", TRUE, FALSE, ""),
    FieldDecl("beta", "Beta", "dec", TRUE, FALSE, ""),
    FieldDecl("cost_of_equity", "Cost_of_Equity", "dec", TRUE, FALSE, ""),
    FieldDecl("cost_of_debt", "Cost_of_Debt", "dec", TRUE, FALSE, ""),
    FieldDecl("ev_ebitda", "EVEBITDA", "dec", TRUE, FALSE, ""),
    FieldDecl("ev_revenue", "EVRevenue", "dec", TRUE, FALSE, ""),
    FieldDecl("net_debt_ebitda", "Net_DebtEbitda", "dec", TRUE, FALSE, ""),
    FieldDecl("maturity_date", "Maturity_Date", "date", TRUE, FALSE, ""),
    FieldDecl("price", "Price", "dec", TRUE, FALSE, ""),
    FieldDecl("coupon", "Coupon", "dec", TRUE, FALSE, ""),
    FieldDecl("spread", "Spread", "dec", TRUE, FALSE, ""),
    FieldDecl("watchlist_position", "Watchlist_position", "str", TRUE, FALSE, ""),
    FieldDecl("ltv", "Ltv", "dec", TRUE, FALSE, ""),
    FieldDecl("leverage_entry", "Leverage_Entry", "dec", TRUE, FALSE, ""),
    FieldDecl("leverage", "Leverage", "dec", TRUE, FALSE, ""),
    FieldDecl("duration", "Duration", "dec", TRUE, FALSE, ""),
    FieldDecl("credit_sensitivity", "Credit_Sensitivity", "dec", TRUE, FALSE, ""),
    FieldDecl("risk_free_rate_applied", "Risk_Free_Rate_applied_to_Valuation", "dec", TRUE, FALSE, ""),
    FieldDecl("credit_rating", "Credit_Rating", "str", TRUE, FALSE, ""),
    FieldDecl("credit_rating_source", "Credit_Rating_Source", "str", TRUE, FALSE, ""),
    FieldDecl("credit_spread_pct", "Credit_Spread", "dec", TRUE, FALSE, ""),
    FieldDecl("country_premium_pct", "Country_Premium", "dec", TRUE, FALSE, ""),
    FieldDecl("liquidity_premium_pct", "Liquidity_Premium", "dec", TRUE, FALSE, ""),
    FieldDecl("other_premia_pct", "Other_premia", "dec", TRUE, FALSE, ""),
    FieldDecl("total_discount_rate_applied_pct", "Total_Discount_Rate_applied_to_Valuation", "dec", TRUE, FALSE, ""),
    FieldDecl("area", "Area", "str", TRUE, FALSE, ""),
    FieldDecl("real_estate_segment", "Real_Estate_Segment", "enum", TRUE, FALSE, "RealEstateSegment") >>

FundExposureFields == <<
    FieldDecl("nav_date", "NAV_Date", "date", FALSE, TRUE, ""),
    FieldDecl("valuation_date", "Valuation_Date", "date", TRUE, FALSE, ""),
    FieldDecl("fondo_target_asset", "FONDO_TARGET_ASSET", "str", FALSE, TRUE, ""),
    FieldDecl("oicr_fondo_target", "OICR_FONDO_TARGET", "str", FALSE, TRUE, ""),
    FieldDecl("oicr", "OICR", "str", FALSE, TRUE, ""),
    FieldDecl("isin_oicr", "ISIN_OICR", "str", TRUE, FALSE, ""),
    FieldDecl("nome_fondo_target", "Nome_Fondo_Target", "str", FALSE, TRUE, ""),
    FieldDecl("isin_fondo_target", "ISIN_Fondo_Target", "str", TRUE, FALSE, ""),
    FieldDecl("tipologia_strumento", "Tipologia_Strumento", "enum", TRUE, FALSE, "InstrumentStrategy"),
    FieldDecl("currency_fondo_target", "Currency_Fondo_Target", "str", TRUE, FALSE, ""),
    FieldDecl("country_fondo_target", "Country_Fondo_Target", "str", TRUE, FALSE, ""),
    FieldDecl("hedging_strategy_fondo_target", "Hedging_Strategy_Fondo_Target", "enum", TRUE, FALSE, "HedgingStrategy"),
    FieldDecl("strategia_fondo_target", "Strategia_Fondo_Target", "enum", TRUE, FALSE, "UnderlyingFundStrategy"),
    FieldDecl("nome_asset", "Nome_Asset", "str", TRUE, FALSE, ""),
    FieldDecl("nome_asset_sintetico", "Nome_Asset_Sintetico", "str", TRUE, FALSE, ""),
    FieldDecl("area_geo_asset", "Area_Geo_Asset", "enum", TRUE, FALSE, "GeographyMacroarea"),
    FieldDecl("paese_asset", "Paese_Asset", "str", TRUE, FALSE, ""),
    FieldDecl("indirizzo_asset", "Indirizzo_Asset", "str", TRUE, FALSE, ""),
    FieldDecl("currency_asset", "Currency_Asset", "str", TRUE, FALSE, ""),
    FieldDecl("macrosettore_attivita_asset", "Macrosettore_Attivita_Asset", "enum", TRUE, FALSE, "MacroSector"),
    FieldDecl("settore_attivita_asset", "Settore_Attivita_Asset", "str", TRUE, FALSE, ""),
    FieldDecl("tipologia_investimento", "Tipologia_Investimento", "enum", TRUE, FALSE, "InvestmentType"),
    FieldDecl("investment_date", "Investment_Date", "date", TRUE, FALSE, ""),
    FieldDecl("exit_date", "Exit_Date", "date", TRUE, FALSE, ""),
    FieldDecl("valuation_methodology", "Valuation_Methodology", "str", TRUE, FALSE, ""),
    FieldDecl("realized_unrealized", "Realized_Unrealized", "enum", TRUE, FALSE, "RealizationStatus"),
    FieldDecl("commitment_fondo_target", "Commitment_Fondo_Target", "dec", TRUE, FALSE, ""),
    FieldDecl("capitale_investito_lordo_loc_curr", "Capitale_Investito_Lordo_Loc_Curr", "dec", TRUE, FALSE, ""),
    FieldDecl("distribuzioni_loc_curr", "Distribuzioni_Loc_Curr", "dec", TRUE, FALSE, ""),
    FieldDecl("fmv_loc_curr", "FMV_Loc_Curr", "dec", TRUE, FALSE, ""),
    FieldDecl("tvpi", "TVPI", "dec", TRUE, FALSE, ""),
    FieldDecl("irr", "IRR", "dec", TRUE, FALSE, ""),
    FieldDecl("cap_inv_fondo_target_pct", "Cap_Inv_Fondo_Target", "dec", TRUE, FALSE, ""),
    FieldDecl("fmv_fondo_target_pct", "FMV_Fondo_Target", "dec", TRUE, FALSE, ""),
    FieldDecl("cap_inv_ripartito_fof_eur", "Cap_Inv_Ripartito_FOF", "dec", TRUE, FALSE, ""),
    FieldDecl("nav_ripartito_fof_eur", "NAV_Ripartito_FOF", "dec", TRUE, FALSE, ""),
    FieldDecl("capitale_investito_fof_pct", "Capitale_Investito_Fof", "dec", TRUE, FALSE, ""),
    FieldDecl("fmv_fof_pct", "FMV_Fof", "dec", TRUE, FALSE, ""),
    FieldDecl("asset_snapshots", "asset_snapshots", "list", FALSE, FALSE, "") >>
\* populate_by_name=True: the alias is looked up first, then the attribute name
Lookup(r, f) ==
    IF f.alias \in DOMAIN r /\ r[f.alias].t # "absent" THEN r[f.alias]
    ELSE IF f.name \in DOMAIN r /\ r[f.name].t # "absent" THEN r[f.name]
    ELSE Absent

\* members compared without regard to letter case
EnumLookup_CaseFolded(cls, s) ==
    {i \in 1..Len(Enums[cls]) : Lower(Enums[cls][i].value) = Lower(s)}

\* the members of cls whose value equals s
EnumLookup(cls, s) == {i \in 1..Len(Enums[cls]) : Enums[cls][i].value = s}

\* use_enum_values=True stores the value of the member, not the member
Stored(cls, m, useValues) == IF useValues THEN StrV(m.value) ELSE EnumV(cls, m)

\* Optional[<Enum>]: None, or a value equal to the value of a member
ValidateEnum(cls, rawv, useValues) ==
    IF rawv.t = "none" THEN Ok(NoneV)
    ELSE IF rawv.t = "str" /\ EnumLookup(cls, rawv.s) # {}
    THEN Ok(Stored(cls, Enums[cls][CHOOSE i \in EnumLookup(cls, rawv.s) : TRUE], useValues))
    ELSE Err("enum")

\* Optional[str] and str: no coercion of other types to str
ValidateStr(f, rawv) ==
    IF rawv.t = "str" THEN Ok(rawv)
    ELSE IF rawv.t = "none" /\ f.opt THEN Ok(NoneV)
    ELSE Err("string_type")

\* a mode="before" validator returned or raised r; then the declared type:
\* ValueError becomes a line error, any other exception leaves the validation
Coerced(f, r) ==
    IF r.t = "raise"
    THEN (IF r.exc \in {"ValueError", "AssertionError"} THEN Err("value_error") ELSE Exc(r.exc))
    ELSE IF r.t = "none" /\ ~f.opt THEN Err(IF f.kind = "date" THEN "date_type" ELSE "decimal_type")
    ELSE Ok(r)

\* what a field gets when the candidate does not supply it
Default(f) == IF f.kind = "list" THEN ListV(<<>>) ELSE NoneV

\* one scalar field of a model
FieldOutcome(f, rawv, useValues) ==
    IF rawv.t = "absent" THEN (IF f.req THEN Err("missing") ELSE Ok(Default(f)))
    ELSE IF f.kind = "dec" THEN Coerced(f, _to_decimal(rawv))
    ELSE IF f.kind = "date" THEN Coerced(f, _parse_iso_or_quarter(rawv))
    ELSE IF f.kind = "enum" THEN ValidateEnum(f.enum, rawv, useValues)
    ELSE ValidateStr(f, rawv)

IndexOf(fields, n) == CHOOSE i \in 1..Len(fields) : fields[i].name = n

Located(errs, key) == {[loc |-> <<key>> \o e.loc, type |-> e.type] : e \in errs}

\* the fields are validated in declaration order: an exception ends the
\* validation at once, line errors are collected over all fields
Assemble(cls, fields, outs) ==
    IF \E i \in 1..Len(fields) : outs[i].k = "exc"
    THEN Exc(outs[CHOOSE i \in 1..Len(fields) :
                     /\ outs[i].k = "exc"
                     /\ \A j \in 1..(i - 1) : outs[j].k # "exc"].exc)
    ELSE IF \E i \in 1..Len(fields) : outs[i].k = "err"
    THEN Errs(UNION {Located(outs[i].errs, fields[i].alias) : i \in 1..Len(fields)})
    ELSE Ok(ModelV(cls, [n \in {fields[i].name : i \in 1..Len(fields)} |->
                            outs[IndexOf(fields, n)].v]))

\* AssetSnapshot(**r)
ValidateSnapshot(r) ==
    Assemble("AssetSnapshot", AssetSnapshotFields,
             [i \in 1..Len(AssetSnapshotFields) |->
                 FieldOutcome(AssetSnapshotFields[i], Lookup(r, AssetSnapshotFields[i]), FALSE)])

\* the entries of a list in order, line errors located by the 0-based index
AssembleList(outs) ==
    IF \E i \in 1..Len(outs) : outs[i].k = "exc"
    THEN Exc(outs[CHOOSE i \in 1..Len(outs) :
                     /\ outs[i].k = "exc"
                     /\ \A j \in 1..(i - 1) : outs[j].k # "exc"].exc)
    ELSE IF \E i \in 1..Len(outs) : outs[i].k = "err"
    THEN Errs(UNION {Located(outs[i].errs, i - 1) : i \in 1..Len(outs)})
    ELSE Ok(ListV([i \in 1..Len(outs) |-> outs[i].v]))

\* asset_snapshots: List[AssetSnapshot] with default_factory=list
ValidateSnapshots(rawv) ==
    IF rawv.t = "absent" THEN Ok(ListV(<<>>))
    ELSE IF rawv.t # "list" THEN Err("list_type")
    ELSE AssembleList([i \in 1..Len(rawv.items) |-> ValidateSnapshot(rawv.items[i])])

\* FundExposure(**r)
ValidateExposure(r) ==
    Assemble("FundExposure", FundExposureFields,
             [i \in 1..Len(FundExposureFields) |->
                 IF FundExposureFields[i].kind = "list"
                 THEN ValidateSnapshots(Lookup(r, FundExposureFields[i]))
                 ELSE FieldOutcome(FundExposureFields[i], Lookup(r, FundExposureFields[i]), TRUE)])

\* what the caller of the validation gets
Returned(o) ==
    IF o.k = "ok" THEN o.v
    ELSE IF o.k = "err" THEN ValidationError(o.errs)
    ELSE Raise(o.exc)

model_validate(r) == Returned(ValidateExposure(r))

(***************************************************************************)
(* Candidate records: required keys present or not, classification values  *)
(* that are members, near members and members of another class, amounts    *)
(* that parse and that do not, and snapshot lists.                         *)
(***************************************************************************)
S_Equity == <<"E","q","u","i","t","y">>
S_equity == <<"e","q","u","i","t","y">>
S_Equit == <<"E","q","u","i","t">>
S_CorporateDebt == <<"C","o","r","p","o","r","a","t","e"," ","D","e","b","t">>
S_Office == <<"O","f","f","i","c","e">>
S_office == <<"o","f","f","i","c","e">>
S_Hotel == <<"H","o","t","e","l">>

NavRaws == {Absent, StrV(<<"2","0","2","3","-","0","6","-","3","0">>),
            StrV(<<"n","/","a">>), StrV(<<"Q","1"," ","0","0","0","0">>)}

SnapshotRaws ==
    { [Real_Estate_Segment |-> StrV(S_Office), EV |-> Absent],
      [Real_Estate_Segment |-> StrV(S_office), EV |-> Absent],
      [Real_Estate_Segment |-> StrV(S_Hotel), EV |-> StrV(<<"K">>)],
      [Real_Estate_Segment |-> Absent, EV |-> StrV(<<"5","M">>)] }

SnapshotLists ==
    {Absent, ListV(<<>>)}
    \cup {ListV(<<a>>) : a \in SnapshotRaws}
    \cup {ListV(<<[Real_Estate_Segment |-> Absent, EV |-> StrV(<<"5","M">>)],
                   [Real_Estate_Segment |-> StrV(S_Office), EV |-> Absent]>>)}

Candidates ==
    [ NAV_Date : NavRaws,
      FONDO_TARGET_ASSET : {Absent, StrV(<<"A">>)},
      OICR_FONDO_TARGET : {Absent, StrV(<<"B">>)},
      OICR : {Absent, StrV(<<"C">>)},
      oicr : {Absent, StrV(<<"c">>)},
      Nome_Fondo_Target : {Absent, StrV(<<"D">>)},
      Tipologia_Strumento : {Absent, NoneV, StrV(S_Equity), StrV(S_equity), StrV(S_Equit)},
      Strategia_Fondo_Target : {Absent, StrV(S_CorporateDebt)},
      TVPI : {Absent, StrV(<<"1",".","5","x">>), StrV(<<"a","b","c","%">>)},
      asset_snapshots : SnapshotLists ]

InitRecord ==
    /\ fn = "record"
    /\ raw = NoneV
    /\ out = Pending
    /\ again = Pending
    /\ cand \in Candidates
    /\ vout = Pending
    /\ PipelineIdle
    /\ RunIdle

\* the candidate is validated as a FundExposure
Validate ==
    /\ fn = "record"
    /\ vout = Pending
    /\ vout' = model_validate(cand)
    /\ UNCHANGED <<fn, raw, out, again, cand>>
    /\ UNCHANGED <<pipeVars, runVars>>

NextRecord == Validate

SpecRecord == InitRecord /\ [][NextRecord]_allvars

(***************************************************************************)
(* The fixed projection of the export (src/excel_exporting.py).            *)
(***************************************************************************)
\* the list with its first two names exchanged
COLUMNS_ValuationFirst == <<
    "Valuation_Date", "NAV_Date", "FONDO_TARGET_ASSET", "OICR_FONDO_TARGET", "OICR",
    "ISIN_OICR", "Nome_Fondo_Target", "ISIN_Fondo_Target", "Tipologia_Strumento",
    "Currency_Fondo_Target", "Country_Fondo_Target", "Hedging_Strategy_Fondo_Target",
    "Strategia_Fondo_Target", "Nome_Asset", "Nome_Asset_Sintetico", "Area_Geo_Asset",
    "Paese_Asset", "Indirizzo_Asset", "Currency_Asset", "Macrosettore_Attivita_Asset",
    "Settore_Attivita_Asset", "Tipologia_Investimento", "Investment_Date", "Exit_Date",
    "Valuation_Methodology", "Realized_Unrealized", "Commitment_Fondo_Target",
    "Capitale_Investito_Lordo_Loc_Curr", "Distribuzioni_Loc_Curr", "FMV_Loc_Curr", "TVPI",
    "IRR", "Cap_Inv_Fondo_Target", "FMV_Fondo_Target", "Cap_Inv_Ripartito_FOF",
    "NAV_Ripartito_FOF", "Capitale_Investito_Fof", "FMV_Fof", "Possesso_Entry", "EV_Entry",
    "EBITDA_Entry", "Margin_Entry", "Net_Revenue_Entry", "Net_Debt_Entry", "FCF_Entry",
    "Net_Result_Entry", "EVEbitda_Entry", "EVRevenue_Entry", "Net_DebtEbitda_Entry",
    "Economics_Reporting_Date", "Possesso", "EV", "LTM_EBITDA", "LTM_Margin",
    "LTM_Net_Revenues", "LTM_Net_Equity", "LTM_Net_Debt", "LTM_FCF", "LTM_Gross_Profit",
    "LTM_Net_Result", "Target_Companys_Debt_Equity_Ratio", "Discount_Rate", "Beta",
    "Cost_of_Equity", "Cost_of_Debt", "EVEBITDA", "EVRevenue", "Net_DebtEbitda",
    "Maturity_Date", "Price", "Coupon", "Spread", "Watchlist_position", "Ltv",
    "Leverage_Entry", "Leverage", "Duration", "Credit_Sensitivity",
    "Risk_Free_Rate_applied_to_Valuation", "Credit_Rating", "Credit_Rating_Source",
    "Credit_Spread", "Country_Premium", "Liquidity_Premium", "Other_premia",
    "Total_Discount_Rate_applied_to_Valuation", "Area", "Real_Estate_Segment" >>

COLUMNS == <<
    "NAV_Date", "Valuation_Date", "FONDO_TARGET_ASSET", "OICR_FONDO_TARGET", "OICR",
    "ISIN_OICR", "Nome_Fondo_Target", "ISIN_Fondo_Target", "Tipologia_Strumento",
    "Currency_Fondo_Target", "Country_Fondo_Target", "Hedging_Strategy_Fondo_Target",
    "Strategia_Fondo_Target", "Nome_Asset", "Nome_Asset_Sintetico", "Area_Geo_Asset",
    "Paese_Asset", "Indirizzo_Asset", "Currency_Asset", "Macrosettore_Attivita_Asset",
    "Settore_Attivita_Asset", "Tipologia_Investimento", "Investment_Date", "Exit_Date",
    "Valuation_Methodology", "Realized_Unrealized", "Commitment_Fondo_Target",
    "Capitale_Investito_Lordo_Loc_Curr", "Distribuzioni_Loc_Curr", "FMV_Loc_Curr", "TVPI",
    "IRR", "Cap_Inv_Fondo_Target", "FMV_Fondo_Target", "Cap_Inv_Ripartito_FOF",
    "NAV_Ripartito_FOF", "Capitale_Investito_Fof", "FMV_Fof", "Possesso_Entry", "EV_Entry",
    "EBITDA_Entry", "Margin_Entry", "Net_Revenue_Entry", "Net_Debt_Entry", "FCF_Entry",
    "Net_Result_Entry", "EVEbitda_Entry", "EVRevenue_Entry", "Net_DebtEbitda_Entry",
    "Economics_Reporting_Date", "Possesso", "EV", "LTM_EBITDA", "LTM_Margin",
    "LTM_Net_Revenues", "LTM_Net_Equity", "LTM_Net_Debt", "LTM_FCF", "LTM_Gross_Profit",
    "LTM_Net_Result", "Target_Companys_Debt_Equity_Ratio", "Discount_Rate", "Beta",
    "Cost_of_Equity", "Cost_of_Debt", "EVEBITDA", "EVRevenue", "Net_DebtEbitda",
    "Maturity_Date", "Price", "Coupon", "Spread", "Watchlist_position", "Ltv",
    "Leverage_Entry", "Leverage", "Duration", "Credit_Sensitivity",
    "Risk_Free_Rate_applied_to_Valuation", "Credit_Rating", "Credit_Rating_Source",
    "Credit_Spread", "Country_Premium", "Liquidity_Premium", "Other_premia",
    "Total_Discount_Rate_applied_to_Valuation", "Area", "Real_Estate_Segment" >>

\* the groups with the keys "gray" and "beige" inserted in the other order
COLUMN_GROUPS_GrayFirst == <<
    [group |-> "gray", columns |-> <<
        "FONDO_TARGET_ASSET", "OICR_FONDO_TARGET", "OICR", "ISIN_OICR" >>],
    [group |-> "beige", columns |-> <<
        "NAV_Date", "Valuation_Date" >>],
    [group |-> "light_blue", columns |-> <<
        "Nome_Fondo_Target", "ISIN_Fondo_Target", "Tipologia_Strumento",
        "Currency_Fondo_Target", "Country_Fondo_Target", "Hedging_Strategy_Fondo_Target",
        "Strategia_Fondo_Target" >>],
    [group |-> "light_yellow", columns |-> <<
        "Nome_Asset", "Nome_Asset_Sintetico", "Area_Geo_Asset", "Paese_Asset",
        "Indirizzo_Asset", "Currency_Asset", "Macrosettore_Attivita_Asset",
        "Settore_Attivita_Asset" >>],
    [group |-> "pink", columns |-> <<
        "Tipologia_Investimento", "Investment_Date", "Exit_Date", "Valuation_Methodology",
        "Realized_Unrealized", "Commitment_Fondo_Target",
        "Capitale_Investito_Lordo_Loc_Curr", "Distribuzioni_Loc_Curr", "FMV_Loc_Curr",
        "TVPI", "IRR", "Cap_Inv_Fondo_Target", "FMV_Fondo_Target", "Cap_Inv_Ripartito_FOF",
        "NAV_Ripartito_FOF", "Capitale_Investito_Fof", "FMV_Fof" >>],
    [group |-> "light_green", columns |-> <<
        "Possesso_Entry", "EV_Entry", "EBITDA_Entry", "Margin_Entry", "Net_Revenue_Entry",
        "Net_Debt_Entry", "FCF_Entry", "Net_Result_Entry", "EVEbitda_Entry",
        "EVRevenue_Entry", "Net_DebtEbitda_Entry", "Economics_Reporting_Date", "Possesso",
        "EV", "LTM_EBITDA", "LTM_Margin", "LTM_Net_Revenues", "LTM_Net_Equity",
        "LTM_Net_Debt", "LTM_FCF", "LTM_Gross_Profit", "LTM_Net_Result" >>],
    [group |-> "gray2", columns |-> <<
        "Target_Companys_Debt_Equity_Ratio", "Discount_Rate", "Beta", "Cost_of_Equity",
        "Cost_of_Debt" >>],
    [group |-> "orange", columns |-> <<
        "EVEBITDA", "EVRevenue", "Net_DebtEbitda", "Maturity_Date", "Price", "Coupon",
        "Spread", "Watchlist_position", "Ltv", "Leverage_Entry", "Leverage", "Duration",
        "Credit_Sensitivity" >>],
    [group |-> "gray3", columns |-> <<
        "Risk_Free_Rate_applied_to_Valuation", "Credit_Rating", "Credit_Rating_Source",
        "Credit_Spread", "Country_Premium", "Liquidity_Premium", "Other_premia",
        "Total_Discount_Rate_applied_to_Valuation" >>],
    [group |-> "green_final", columns |-> <<
        "Area", "Real_Estate_Segment" >>] >>

\* a dict keeps the order in which its keys were inserted
COLUMN_GROUPS == <<
    [group |-> "beige", columns |-> <<
        "NAV_Date", "Valuation_Date" >>],
    [group |-> "gray", columns |-> <<
        "FONDO_TARGET_ASSET", "OICR_FONDO_TARGET", "OICR", "ISIN_OICR" >>],
    [group |-> "light_blue", columns |-> <<
        "Nome_Fondo_Target", "ISIN_Fondo_Target", "Tipologia_Strumento",
        "Currency_Fondo_Target", "Country_Fondo_Target", "Hedging_Strategy_Fondo_Target",
        "Strategia_Fondo_Target" >>],
    [group |-> "light_yellow", columns |-> <<
        "Nome_Asset", "Nome_Asset_Sintetico", "Area_Geo_Asset", "Paese_Asset",
        "Indirizzo_Asset", "Currency_Asset", "Macrosettore_Attivita_Asset",
        "Settore_Attivita_Asset" >>],
    [group |-> "pink", columns |-> <<
        "Tipologia_Investimento", "Investment_Date", "Exit_Date", "Valuation_Methodology",
        "Realized_Unrealized", "Commitment_Fondo_Target",
        "Capitale_Investito_Lordo_Loc_Curr", "Distribuzioni_Loc_Curr", "FMV_Loc_Curr",
        "TVPI", "IRR", "Cap_Inv_Fondo_Target", "FMV_Fondo_Target", "Cap_Inv_Ripartito_FOF",
        "NAV_Ripartito_FOF", "Capitale_Investito_Fof", "FMV_Fof" >>],
    [group |-> "light_green", columns |-> <<
        "Possesso_Entry", "EV_Entry", "EBITDA_Entry", "Margin_Entry", "Net_Revenue_Entry",
        "Net_Debt_Entry", "FCF_Entry", "Net_Result_Entry", "EVEbitda_Entry",
        "EVRevenue_Entry", "Net_DebtEbitda_Entry", "Economics_Reporting_Date", "Possesso",
        "EV", "LTM_EBITDA", "LTM_Margin", "LTM_Net_Revenues", "LTM_Net_Equity",
        "LTM_Net_Debt", "LTM_FCF", "LTM_Gross_Profit", "LTM_Net_Result" >>],
    [group |-> "gray2", columns |-> <<
        "Target_Companys_Debt_Equity_Ratio", "Discount_Rate", "Beta", "Cost_of_Equity",
        "Cost_of_Debt" >>],
    [group |-> "orange", columns |-> <<
        "EVEBITDA", "EVRevenue", "Net_DebtEbitda", "Maturity_Date", "Price", "Coupon",
        "Spread", "Watchlist_position", "Ltv", "Leverage_Entry", "Leverage", "Duration",
        "Credit_Sensitivity" >>],
    [group |-> "gray3", columns |-> <<
        "Risk_Free_Rate_applied_to_Valuation", "Credit_Rating", "Credit_Rating_Source",
        "Credit_Spread", "Country_Premium", "Liquidity_Premium", "Other_premia",
        "Total_Discount_Rate_applied_to_Valuation" >>],
    [group |-> "green_final", columns |-> <<
        "Area", "Real_Estate_Segment" >>] >>

FILL_COLORS ==
    "beige" :> "DDD0C8" @@ "gray" :> "D9D9D9" @@ "light_blue" :> "DEEDED" @@
    "light_yellow" :> "F6E8CC" @@ "pink" :> "F8D7DA" @@ "light_green" :> "D4EED4" @@
    "gray2" :> "BFBFBF" @@ "orange" :> "F8CBAD" @@ "gray3" :> "C9C9C9" @@
    "green_final" :> "C6EFCE"

\* str(member) of a plain Enum member: the class name, a dot, the member name
EnumStr ==
    [ InstrumentStrategy |-> <<
          <<"I","n","s","t","r","u","m","e","n","t","S","t","r","a","t","e","g","y",".","E","Q","U","I","T","Y">>,
          <<"I","n","s","t","r","u","m","e","n","t","S","t","r","a","t","e","g","y",".","C","O","R","P","O","R","A","T","E","_","D","E","B","T">> >>,
      HedgingStrategy |-> <<
          <<"H","e","d","g","i","n","g","S","t","r","a","t","e","g","y",".","Y","E","S">>,
          <<"H","e","d","g","i","n","g","S","t","r","a","t","e","g","y",".","N","O">>,
          <<"H","e","d","g","i","n","g","S","t","r","a","t","e","g","y",".","E","X","P","E","C","T","E","D">> >>,
      UnderlyingFundStrategy |-> <<
          <<"U","n","d","e","r","l","y","i","n","g","F","u","n","d","S","t","r","a","t","e","g","y",".","V","C">>,
          <<"U","n","d","e","r","l","y","i","n","g","F","u","n","d","S","t","r","a","t","e","g","y",".","G","R","O","W","T","H">>,
          <<"U","n","d","e","r","l","y","i","n","g","F","u","n","d","S","t","r","a","t","e","g","y",".","B","U","Y","O","U","T">>,
          <<"U","n","d","e","r","l","y","i","n","g","F","u","n","d","S","t","r","a","t","e","g","y",".","L","_","B","U","Y","O","U","T">>,
          <<"U","n","d","e","r","l","y","i","n","g","F","u","n","d","S","t","r","a","t","e","g","y",".","A","S","I","A">>,
          <<"U","n","d","e","r","l","y","i","n","g","F","u","n","d","S","t","r","a","t","e","g","y",".","D","I","R","E","T","T","O">>,
          <<"U","n","d","e","r","l","y","i","n","g","F","u","n","d","S","t","r","a","t","e","g","y",".","S","E","N","I","O","R">>,
          <<"U","n","d","e","r","l","y","i","n","g","F","u","n","d","S","t","r","a","t","e","g","y",".","U","N","I","_","T","R","A","N","C","H","E">>,
          <<"U","n","d","e","r","l","y","i","n","g","F","u","n","d","S","t","r","a","t","e","g","y",".","M","E","Z","Z","A","N","I","N","E">>,
          <<"U","n","d","e","r","l","y","i","n","g","F","u","n","d","S","t","r","a","t","e","g","y",".","J","U","N","I","O","R">>,
          <<"U","n","d","e","r","l","y","i","n","g","F","u","n","d","S","t","r","a","t","e","g","y",".","P","R","E","F","E","R","R","E","D","_","E","Q","U","I","T","Y">>,
          <<"U","n","d","e","r","l","y","i","n","g","F","u","n","d","S","t","r","a","t","e","g","y",".","R","E","F","I","N">>,
          <<"U","n","d","e","r","l","y","i","n","g","F","u","n","d","S","t","r","a","t","e","g","y",".","E","Q","U","I","T","Y">>,
          <<"U","n","d","e","r","l","y","i","n","g","F","u","n","d","S","t","r","a","t","e","g","y",".","P","I","K">>,
          <<"U","n","d","e","r","l","y","i","n","g","F","u","n","d","S","t","r","a","t","e","g","y",".","N","A","V","_","L","E","N","D","I","N","G">>,
          <<"U","n","d","e","r","l","y","i","n","g","F","u","n","d","S","t","r","a","t","e","g","y",".","C","L","O">>,
          <<"U","n","d","e","r","l","y","i","n","g","F","u","n","d","S","t","r","a","t","e","g","y",".","C","O","R","E">>,
          <<"U","n","d","e","r","l","y","i","n","g","F","u","n","d","S","t","r","a","t","e","g","y",".","C","O","R","E","_","P","L","U","S">>,
          <<"U","n","d","e","r","l","y","i","n","g","F","u","n","d","S","t","r","a","t","e","g","y",".","V","A","L","U","E","_","A","D","D","E","D">>,
          <<"U","n","d","e","r","l","y","i","n","g","F","u","n","d","S","t","r","a","t","e","g","y",".","O","P","P","O","R","T","U","N","I","S","T","I","C">>,
          <<"U","n","d","e","r","l","y","i","n","g","F","u","n","d","S","t","r","a","t","e","g","y",".","R","E","_","C","R","E","D","I","T">>,
          <<"U","n","d","e","r","l","y","i","n","g","F","u","n","d","S","t","r","a","t","e","g","y",".","O","T","H","E","R">> >>,
      GeographyMacroarea |-> <<
          <<"G","e","o","g","r","a","p","h","y","M","a","c","r","o","a","r","e","a",".","E","U","R","O","P","E">>,
          <<"G","e","o","g","r","a","p","h","y","M","a","c","r","o","a","r","e","a",".","U","K">>,
          <<"G","e","o","g","r","a","p","h","y","M","a","c","r","o","a","r","e","a",".","N","_","A","M","E","R","I","C","A">>,
          <<"G","e","o","g","r","a","p","h","y","M","a","c","r","o","a","r","e","a",".","L","A","T","A","M">>,
          <<"G","e","o","g","r","a","p","h","y","M","a","c","r","o","a","r","e","a",".","C","H","I","N","A">>,
          <<"G","e","o","g","r","a","p","h","y","M","a","c","r","o","a","r","e","a",".","S","E","A","_","O","C","E","A","N","I","A">>,
          <<"G","e","o","g","r","a","p","h","y","M","a","c","r","o","a","r","e","a",".","O","T","H","E","R">> >>,
      MacroSector |-> <<
          <<"M","a","c","r","o","S","e","c","t","o","r",".","E","D","U","C","A","T","I","O","N">>,
          <<"M","a","c","r","o","S","e","c","t","o","r",".","F","I","N","_","S","E","R","V","I","C","E","S">>,
          <<"M","a","c","r","o","S","e","c","t","o","r",".","H","E","A","L","T","H","_","P","H","A","R","M","A">>,
          <<"M","a","c","r","o","S","e","c","t","o","r",".","I","N","D","U","S","T","R","I","A","L","_","B","U","S","I","N","E","S","S">>,
          <<"M","a","c","r","o","S","e","c","t","o","r",".","C","O","N","S","U","M","E","R","_","R","E","T","A","I","L">>,
          <<"M","a","c","r","o","S","e","c","t","o","r",".","T","R","A","V","E","L","_","H","O","S","P","I","T","A","L","I","T","Y">>,
          <<"M","a","c","r","o","S","e","c","t","o","r",".","S","O","F","T","W","A","R","E","_","T","E","C","H">>,
          <<"M","a","c","r","o","S","e","c","t","o","r",".","R","E","A","L","_","E","S","T","A","T","E">>,
          <<"M","a","c","r","o","S","e","c","t","o","r",".","O","T","H","E","R">> >>,
      InvestmentType |-> <<
          <<"I","n","v","e","s","t","m","e","n","t","T","y","p","e",".","P","R","I","M","A","R","Y">>,
          <<"I","n","v","e","s","t","m","e","n","t","T","y","p","e",".","S","E","C","O","N","D","A","R","Y">>,
          <<"I","n","v","e","s","t","m","e","n","t","T","y","p","e",".","C","O","_","I","N","V">> >>,
      RealizationStatus |-> <<
          <<"R","e","a","l","i","z","a","t","i","o","n","S","t","a","t","u","s",".","R","E","A","L","I","Z","E","D">>,
          <<"R","e","a","l","i","z","a","t","i","o","n","S","t","a","t","u","s",".","U","N","R","E","A","L","I","Z","E","D">> >>,
      RealEstateSegment |-> <<
          <<"R","e","a","l","E","s","t","a","t","e","S","e","g","m","e","n","t",".","R","E","S","I","D","E","N","T","I","A","L">>,
          <<"R","e","a","l","E","s","t","a","t","e","S","e","g","m","e","n","t",".","O","F","F","I","C","E">>,
          <<"R","e","a","l","E","s","t","a","t","e","S","e","g","m","e","n","t",".","R","E","T","A","I","L">>,
          <<"R","e","a","l","E","s","t","a","t","e","S","e","g","m","e","n","t",".","I","N","D","U","S","T","R","I","A","L","_","L","O","G","I","S","T","I","C","S">>,
          <<"R","e","a","l","E","s","t","a","t","e","S","e","g","m","e","n","t",".","H","O","T","E","L">>,
          <<"R","e","a","l","E","s","t","a","t","e","S","e","g","m","e","n","t",".","M","I","X","E","D","_","U","S","E">>,
          <<"R","e","a","l","E","s","t","a","t","e","S","e","g","m","e","n","t",".","O","T","H","E","R">> >> ]

(***************************************************************************)
(* The persisted intermediate form: model_dump(by_alias=True) of a         *)
(* validated record, json.dump(..., default=str) and json.load.  A mapping *)
(* read from JSON is [t |-> "map", m |-> [key |-> value]].                 *)
(***************************************************************************)
MapV(m) == [t |-> "map", m |-> m]

NameOf(fields, a) == fields[CHOOSE i \in 1..Len(fields) : fields[i].alias = a].name

Aliases(fields) == {fields[i].alias : i \in 1..Len(fields)}

\* AssetSnapshot.model_dump(by_alias=True): every field under its alias
DumpSnapshot(m) ==
    MapV([a \in Aliases(AssetSnapshotFields) |-> m.v[NameOf(AssetSnapshotFields, a)]])

\* FundExposure.model_dump(by_alias=True, exclude_none=False)
DumpExposure(m) ==
    MapV([a \in Aliases(FundExposureFields) |->
            IF a = "asset_snapshots"
            THEN ListV([i \in 1..Len(m.v.asset_snapshots.items) |->
                           DumpSnapshot(m.v.asset_snapshots.items[i])])
            ELSE m.v[NameOf(FundExposureFields, a)]])

\* json.dump(default=str) followed by json.load, on one scalar: a Decimal, a
\* date and an Enum member are not JSON serializable and go through str()
JsonScalar(v) ==
    IF v.t = "dec" THEN StrV(DecStr(v))
    ELSE IF v.t = "date" THEN StrV(DateStr(v))
    ELSE IF v.t = "enum"
    THEN StrV(EnumStr[v.cls][CHOOSE i \in 1..Len(Enums[v.cls]) : Enums[v.cls][i].name = v.name])
    ELSE v

JsonSnapshot(rec) == MapV([k \in DOMAIN rec.m |-> JsonScalar(rec.m[k])])

JsonRecord(rec) ==
    MapV([k \in DOMAIN rec.m |->
            IF rec.m[k].t = "list"
            THEN ListV([i \in 1..Len(rec.m[k].items) |-> JsonSnapshot(rec.m[k].items[i])])
            ELSE JsonScalar(rec.m[k])])

\* the content of a file of the output folder
NoFile == [k |-> "nofile"]
Corrupt == [k |-> "corrupt"]
JsonFile(data) == [k |-> "json", data |-> data]

\* save_json: the dumped items written as one JSON document
save_json(data) == JsonFile(ListV([i \in 1..Len(data) |-> JsonRecord(data[i])]))

\* FundExposureBatch: every item validated as a FundExposure, in order
ValidateBatch(items) ==
    AssembleList([i \in 1..Len(items) |-> ValidateExposure(items[i])])

\* the dump of the validated batch, or the failure of the validation
Dumped(o) ==
    IF o.k = "ok" THEN Ok([i \in 1..Len(o.v.items) |-> DumpExposure(o.v.items[i])])
    ELSE o

\* process_md_file: the structured output of the extraction, validated as a
\* FundExposureBatch and dumped; the call itself may fail
process_md_file(md) ==
    IF md.k = "fail" THEN Exc("Exception") ELSE Dumped(ValidateBatch(md.items))

(***************************************************************************)
(* flatten_record and load_json_records (src/excel_exporting.py).          *)
(***************************************************************************)
ColumnSet == {COLUMNS[i] : i \in 1..Len(COLUMNS)}

\* rec.get(k, None)
Get(rec, k) == IF k \in DOMAIN rec.m THEN rec.m[k] ELSE NoneV

\* the last snapshot instead of the first
FirstSnapshot_Last(snapshots) ==
    IF snapshots.t = "list" /\ Len(snapshots.items) > 0
    THEN snapshots.items[Len(snapshots.items)]
    ELSE MapV(<<>>)

\* snapshots[0] if isinstance(snapshots, list) and snapshots else {}
FirstSnapshot(snapshots) ==
    IF snapshots.t = "list" /\ Len(snapshots.items) > 0 THEN snapshots.items[1]
    ELSE MapV(<<>>)

\* the loop over COLUMNS without the test "snap[k] is not None"
Overlay_NoneOverwrites(rec, snap) ==
    IF snap.t = "map"
    THEN Ok([k \in ColumnSet |-> IF k \in DOMAIN snap.m THEN snap.m[k] ELSE Get(rec, k)])
    ELSE IF snap.t \in {"str", "list"} THEN Ok([k \in ColumnSet |-> Get(rec, k)])
    ELSE Exc("TypeError")

\* the loop over COLUMNS: "k in snap" raises TypeError for a snap that is no
\* container; in a str or a list no column name is found
Overlay(rec, snap) ==
    IF snap.t = "map"
    THEN Ok([k \in ColumnSet |->
                IF k \in DOMAIN snap.m /\ snap.m[k].t # "none" THEN snap.m[k]
                ELSE Get(rec, k)])
    ELSE IF snap.t \in {"str", "list"} THEN Ok([k \in ColumnSet |-> Get(rec, k)])
    ELSE Exc("TypeError")

\* flatten_record taking snapshots[0] without looking at the list
flatten_record_Unguarded(rec) ==
    IF rec.t # "map" THEN Exc("AttributeError")
    ELSE IF Get(rec, "asset_snapshots").t # "list" THEN Exc("TypeError")
    ELSE IF Len(Get(rec, "asset_snapshots").items) = 0 THEN Exc("IndexError")
    ELSE Overlay(rec, Get(rec, "asset_snapshots").items[1])

\* rec.get raises AttributeError for a rec that is no mapping
flatten_record(rec) ==
    IF rec.t # "map" THEN Exc("AttributeError")
    ELSE Overlay(rec, FirstSnapshot(Get(rec, "asset_snapshots")))

\* json.load raises for a file that is not JSON; a list gives its entries, a
\* mapping one record, anything else none
load_json_records(file) ==
    IF file.k = "corrupt" THEN Exc("JSONDecodeError")
    ELSE IF file.data.t = "list" THEN Ok(file.data.items)
    ELSE IF file.data.t = "map" THEN Ok(<<file.data>>)
    ELSE Ok(<<>>)

\* the rows appended for one file: flatten_record of its records in order, up to
\* the first record on which it raises
FlatUntilError(flats) ==
    IF \E i \in 1..Len(flats) : flats[i].k = "exc"
    THEN [rows |-> [i \in 1..((CHOOSE j \in 1..Len(flats) :
                                   /\ flats[j].k = "exc"
                                   /\ \A h \in 1..(j - 1) : flats[h].k # "exc") - 1) |->
                       flats[i].v],
          failed |-> TRUE]
    ELSE [rows |-> [i \in 1..Len(flats) |-> flats[i].v], failed |-> FALSE]

Flattened(loaded) ==
    IF loaded.k = "exc" THEN [rows |-> <<>>, failed |-> TRUE]
    ELSE FlatUntilError([i \in 1..Len(loaded.v) |-> flatten_record(loaded.v[i])])

\* the body of the try block of export_excel for one file
RowsOfFile(file) == Flattened(load_json_records(file))

(***************************************************************************)
(* The pipeline of a run: field_matching over the markdown documents of    *)
(* the output folder, then export_excel over its JSON files, called by the *)
(* command line (main) or by the server (_process_documents_sync).         *)
(***************************************************************************)
PathV(p) == [t |-> "path", p |-> p]

\* the JSON names of the output folder in sorted order: one file that is not
\* written by the run, then the files of the first and second document
FileNames == <<"a.json", "m1.json", "m2.json">>

\* os.path.splitext(os.path.basename(md_path))[0] + ".json"
JsonName(i) == FileNames[i + 1]

\* the JSON files of the folder in descending order of name
JsonFiles_Descending(dir) ==
    SelectSeq([i \in 1..Len(FileNames) |-> FileNames[Len(FileNames) + 1 - i]],
              LAMBDA n : dir[n] # NoFile)

\* sorted(out_dir_path.glob("*.json"))
JsonFiles(dir) == SelectSeq(FileNames, LAMBDA n : dir[n] # NoFile)

\* the try block of field_matching for one document, given what
\* process_md_file returned or raised
SaveOrReport(r, i) ==
    /\ outdir' = IF r.k = "ok" THEN [outdir EXCEPT ![JsonName(i)] = save_json(r.v)]
                 ELSE outdir
    /\ reported' = IF r.k = "ok" THEN reported ELSE reported \cup {i}

\* one iteration of the loop of field_matching
ProcessMd ==
    /\ pc = "field_matching"
    /\ fm <= Len(mds)
    /\ SaveOrReport(process_md_file(mds[fm]), fm)
    /\ fm' = fm + 1
    /\ UNCHANGED <<caller, pc, mds, ex, all_rows, skipped, final, outcome>>
    /\ UNCHANGED <<vars, runVars>>

\* field_matching returns and the caller enters export_excel
FieldMatchingReturn ==
    /\ pc = "field_matching"
    /\ fm > Len(mds)
    /\ pc' = "export_excel"
    /\ UNCHANGED <<caller, mds, outdir, fm, reported, ex, all_rows, skipped, final, outcome>>
    /\ UNCHANGED <<vars, runVars>>

\* the try block of export_excel for one file, given its rows
AppendRows(r, n) ==
    /\ all_rows' = all_rows \o r.rows
    /\ skipped' = IF r.failed THEN skipped \cup {n} ELSE skipped

\* one iteration of the loop of export_excel
ExportFile ==
    /\ pc = "export_excel"
    /\ ex <= Len(JsonFiles(outdir))
    /\ AppendRows(RowsOfFile(outdir[JsonFiles(outdir)[ex]]), JsonFiles(outdir)[ex])
    /\ ex' = ex + 1
    /\ UNCHANGED <<caller, pc, mds, outdir, fm, reported, final, outcome>>
    /\ UNCHANGED <<vars, runVars>>

\* export_excel returns None for no rows, else the path of the written table
ExportReturn ==
    /\ pc = "export_excel"
    /\ ex > Len(JsonFiles(outdir))
    /\ final' = IF all_rows = <<>> THEN NoneV ELSE PathV("portfolio_output.xlsx")
    /\ pc' = "caller"
    /\ UNCHANGED <<caller, mds, outdir, fm, reported, ex, all_rows, skipped, outcome>>
    /\ UNCHANGED <<vars, runVars>>

\* main prints the path or "No Excel file was generated";
\* _process_documents_sync evaluates Path(export_excel(...)), and Path(None)
\* raises TypeError, which process_documents re-raises
CallerReturn ==
    /\ pc = "caller"
    /\ outcome' = IF caller = "mcp" /\ final = NoneV THEN Raise("TypeError") ELSE final
    /\ pc' = "done"
    /\ UNCHANGED <<caller, mds, outdir, fm, reported, ex, all_rows, skipped, final>>
    /\ UNCHANGED <<vars, runVars>>

(***************************************************************************)
(* Runs: documents whose extraction fails, gives no record, gives valid    *)
(* records, or gives a batch with a record lacking an identity string; and *)
(* an output folder that may hold a JSON file the run did not write.       *)
(***************************************************************************)
ItemA ==
    [ NAV_Date |-> StrV(<<"2","0","2","3","-","0","6","-","3","0">>),
      FONDO_TARGET_ASSET |-> StrV(<<"A">>),
      OICR_FONDO_TARGET |-> StrV(<<"B">>),
      OICR |-> StrV(<<"C">>),
      Nome_Fondo_Target |-> StrV(<<"D">>),
      Tipologia_Strumento |-> StrV(S_Equity),
      TVPI |-> StrV(<<"1",".","5","x">>),
      asset_snapshots |-> ListV(<<[Real_Estate_Segment |-> StrV(S_Office),
                                   EV |-> StrV(<<"5","M">>)]>>) ]

ItemB ==
    [ NAV_Date |-> StrV(<<"Q","2"," ","2","0","2","3">>),
      FONDO_TARGET_ASSET |-> StrV(<<"A">>),
      OICR_FONDO_TARGET |-> StrV(<<"B">>),
      OICR |-> StrV(<<"C">>),
      Nome_Fondo_Target |-> StrV(<<"E">>) ]

\* ItemB without the identity string OICR
ItemBad ==
    [ NAV_Date |-> StrV(<<"Q","2"," ","2","0","2","3">>),
      FONDO_TARGET_ASSET |-> StrV(<<"A">>),
      OICR_FONDO_TARGET |-> StrV(<<"B">>),
      Nome_Fondo_Target |-> StrV(<<"E">>) ]

\* a record with two snapshots: the first has no segment, the second has one
ItemC ==
    [ NAV_Date |-> StrV(<<"2","0","2","3","-","0","6","-","3","0">>),
      FONDO_TARGET_ASSET |-> StrV(<<"A">>),
      OICR_FONDO_TARGET |-> StrV(<<"B">>),
      OICR |-> StrV(<<"C">>),
      Nome_Fondo_Target |-> StrV(<<"F">>),
      asset_snapshots |-> ListV(<<[EV |-> StrV(<<"5","M">>)],
                                  [Real_Estate_Segment |-> StrV(S_Hotel),
                                   EV |-> StrV(<<"7","M">>)]>>) ]

Failing == [k |-> "fail"]
Batch(items) == [k |-> "batch", items |-> items]

Mds == {Failing, Batch(<<>>), Batch(<<ItemA>>), Batch(<<ItemB, ItemA>>),
        Batch(<<ItemA, ItemBad, ItemB>>), Batch(<<ItemBad>>), Batch(<<ItemC>>)}

MdLists == {<<>>} \cup {<<d>> : d \in Mds} \cup {<<d, e>> : d \in Mds, e \in Mds}

\* a record without the key asset_snapshots
ForeignRec ==
    MapV([NAV_Date |-> StrV(<<"2","0","2","3","-","0","6","-","3","0">>),
          OICR |-> StrV(<<"C">>)])

\* a record whose first snapshot holds a null, a name of the top level and a
\* name of its own, and whose top level holds a name of the snapshots
ForeignOverlap ==
    MapV([NAV_Date |-> StrV(<<"2","0","2","3","-","0","6","-","3","0">>),
          TVPI |-> StrV(<<"3">>),
          EV |-> StrV(<<"1">>),
          asset_snapshots |->
              ListV(<<MapV([EV |-> NoneV, TVPI |-> StrV(<<"2">>), Area |-> StrV(<<"x">>)]),
                      MapV([EV |-> StrV(<<"9">>), Area |-> StrV(<<"y">>)])>>)])

ForeignFiles == {NoFile, Corrupt, JsonFile(ForeignRec), JsonFile(IntV(7)),
                 JsonFile(ListV(<<ForeignOverlap>>)),
                 JsonFile(ListV(<<IntV(7)>>)),
                 JsonFile(ListV(<<ForeignRec, IntV(7), ForeignRec>>))}

InitPipeline ==
    /\ fn = "pipeline"
    /\ raw = NoneV
    /\ out = Pending
    /\ again = Pending
    /\ cand = NoCand
    /\ vout = Pending
    /\ caller \in {"cli", "mcp"}
    /\ pc = "field_matching"
    /\ mds \in MdLists
    /\ outdir \in {[n \in {FileNames[i] : i \in 1..Len(FileNames)} |->
                      IF n = FileNames[1] THEN f ELSE NoFile] : f \in ForeignFiles}
    /\ fm = 1
    /\ reported = {}
    /\ ex = 1
    /\ all_rows = <<>>
    /\ skipped = {}
    /\ final = Pending
    /\ outcome = Pending
    /\ RunIdle

NextPipeline ==
    ProcessMd \/ FieldMatchingReturn \/ ExportFile \/ ExportReturn \/ CallerReturn

SpecPipeline == InitPipeline /\ [][NextPipeline]_allvars

(***************************************************************************)
(* A run of the server (src/mcp_server.py): download_supabase_s3_documents *)
(* starts one download_one task per URL, the tasks interleave at their     *)
(* awaits, and process_documents is called once the run id was returned.   *)
(* The URLs of a run are fewer than the 5 permits of the semaphore, which  *)
(* therefore never blocks.                                                 *)
(***************************************************************************)
\* the calls of process_documents made on one run
MaxCalls == 3

\* a path of the reports directory: the file name, or the name with the
\* suffix -n before its extension (n = 0 stands for the plain name)
ReportPath(name, n) == [name |-> name, n |-> n]

\* _unique_path: the first candidate that does not exist
_unique_path(dir, filename) ==
    ReportPath(filename,
               CHOOSE n \in 0..Cardinality(DOMAIN dir) :
                   /\ ReportPath(filename, n) \notin DOMAIN dir
                   /\ \A m \in 0..(n - 1) : ReportPath(filename, m) \in DOMAIN dir)

\* the bytes of URL i written to the file at path p, created or truncated
Written(dir, p, i) == [q \in DOMAIN dir \cup {p} |-> IF q = p THEN i ELSE dir[q]]

\* download_one up to the opening of the target: the request fails and the
\* error is captured, or the target path is chosen
Request(i) ==
    /\ fn = "run"
    /\ status = "downloading"
    /\ task[i] = "start"
    /\ IF urls[i].ok
       THEN /\ target' = [target EXCEPT ![i] = _unique_path(reports, urls[i].name)]
            /\ task' = [task EXCEPT ![i] = "open"]
            /\ UNCHANGED errors
       ELSE /\ errors' = Append(errors, i)
            /\ task' = [task EXCEPT ![i] = "failed"]
            /\ UNCHANGED target
    /\ UNCHANGED <<urls, reports, status, final_excel, presult>>
    /\ UNCHANGED <<pd, lock, executed, calls, registered, base_dir>>
    /\ UNCHANGED <<vars, pipeVars>>

\* download_one from aiofiles.open(target, "wb") to the end of the stream
Write(i) ==
    /\ fn = "run"
    /\ task[i] = "open"
    /\ reports' = Written(reports, target[i], i)
    /\ task' = [task EXCEPT ![i] = "done"]
    /\ UNCHANGED <<urls, target, errors, status, final_excel, presult>>
    /\ UNCHANGED <<pd, lock, executed, calls, registered, base_dir>>
    /\ UNCHANGED <<vars, pipeVars>>

\* the task group is left when every task ended; the status is decided and
\* the run id returned
DownloadReturn ==
    /\ fn = "run"
    /\ status = "downloading"
    /\ \A i \in 1..Len(urls) : task[i] \in {"done", "failed"}
    /\ status' = IF errors # <<>> THEN "download_errors" ELSE "ready"
    /\ UNCHANGED <<urls, task, target, reports, errors, final_excel, presult>>
    /\ UNCHANGED <<pd, lock, executed, calls, registered, base_dir>>
    /\ UNCHANGED <<vars, pipeVars>>

\* what _process_documents_sync can give: a table when a report exists and
\* gave a row, else an exception (Path(None) when export_excel gave no row)
PipelineResults(dir) ==
    IF DOMAIN dir = {} THEN {Raise("TypeError")}
    ELSE {PathV("portfolio_output.xlsx"), Raise("TypeError"), Raise("Exception")}

\* the statuses from which process_documents starts the pipeline, with the
\* status of a finished run added
Restartable_WithDone == {"ready", "error", "idle", "download_errors", "done"}

\* the statuses from which process_documents starts the pipeline
Restartable == {"ready", "error", "idle", "download_errors"}

\* str(e) of the exceptions that leave the pipeline
Message ==
    "TypeError" :> "expected str, bytes or os.PathLike object, not NoneType"
        @@ "Exception" :> ""

\* f"error: {e}"
ErrorStatus(r) == "error: " \o Message[r.exc]

\* the statuses set by _process_documents_sync, in order
Stages == <<"starting", "parsing_docs_to_markdown", "matching_fields_with_llm",
            "exporting_final_excel">>

\* the value returned to a call that does not start the pipeline
AlreadyProcessing == [t |-> "text", s |-> "already_processing"]

\* the clients that call the tools of a run
Callers == {"c1", "c2"}

\* the end of process_documents, given what the pipeline returned or raised
Processed(r) ==
    /\ status' = IF r.t = "raise" THEN ErrorStatus(r) ELSE "done"
    /\ final_excel' = IF r.t = "raise" THEN final_excel ELSE r
    /\ presult' = r

\* process_documents up to "async with state.lock": _ensure_run finds the run
\* or raises ValueError
EnsureRun(c) ==
    /\ fn = "run"
    /\ status # "downloading"
    /\ pd[c] = "out"
    /\ calls < MaxCalls
    /\ calls' = calls + 1
    /\ IF registered
       THEN /\ pd' = [pd EXCEPT ![c] = "lock"]
            /\ UNCHANGED presult
       ELSE /\ presult' = Raise("ValueError")
            /\ UNCHANGED pd
    /\ UNCHANGED <<urls, task, target, reports, errors, status, final_excel>>
    /\ UNCHANGED <<lock, executed, registered, base_dir>>
    /\ UNCHANGED <<vars, pipeVars>>

\* process_documents from the acquisition of state.lock to its return, or to
\* the start of _process_documents_sync in a worker thread
WithLock(c) ==
    /\ fn = "run"
    /\ pd[c] = "lock"
    /\ lock = "free"
    /\ IF status \notin Restartable
       THEN /\ presult' = IF final_excel # NoneV THEN final_excel ELSE AlreadyProcessing
            /\ pd' = [pd EXCEPT ![c] = "out"]
            /\ UNCHANGED <<status, lock, executed>>
       ELSE IF status = "download_errors"
       THEN /\ presult' = Raise("RuntimeError")
            /\ pd' = [pd EXCEPT ![c] = "out"]
            /\ UNCHANGED <<status, lock, executed>>
       ELSE /\ status' = Stages[1]
            /\ lock' = c
            /\ executed' = executed + 1
            /\ pd' = [pd EXCEPT ![c] = "thread"]
            /\ UNCHANGED presult
    /\ UNCHANGED <<urls, task, target, reports, errors, final_excel>>
    /\ UNCHANGED <<calls, registered, base_dir>>
    /\ UNCHANGED <<vars, pipeVars>>

\* _process_documents_sync enters its next stage
_process_documents_sync(c) ==
    /\ fn = "run"
    /\ pd[c] = "thread"
    /\ \E k \in 1..(Len(Stages) - 1) :
           /\ status = Stages[k]
           /\ status' = Stages[k + 1]
    /\ UNCHANGED <<urls, task, target, reports, errors, final_excel, presult>>
    /\ UNCHANGED <<pd, lock, executed, calls, registered, base_dir>>
    /\ UNCHANGED <<vars, pipeVars>>

\* the worker thread ends: an exception leaves any stage, export_excel gives
\* its result in the last one; process_documents returns or raises and the
\* lock is released
ThreadReturn(c) ==
    /\ fn = "run"
    /\ pd[c] = "thread"
    /\ \E r \in PipelineResults(reports) :
           /\ r # Raise("Exception") => status = Stages[Len(Stages)]
           /\ Processed(r)
    /\ lock' = "free"
    /\ pd' = [pd EXCEPT ![c] = "out"]
    /\ UNCHANGED <<urls, task, target, reports, errors>>
    /\ UNCHANGED <<executed, calls, registered, base_dir>>
    /\ UNCHANGED <<vars, pipeVars>>

\* cleanup_run of a registered run: the run is popped from RUNS under
\* RUNS_LOCK and its directory removed, with no await in between
cleanup_run ==
    /\ fn = "run"
    /\ status # "downloading"
    /\ registered
    /\ registered' = FALSE
    /\ base_dir' = FALSE
    /\ reports' = <<>>
    /\ UNCHANGED <<urls, task, target, errors, status, final_excel, presult>>
    /\ UNCHANGED <<pd, lock, executed, calls>>
    /\ UNCHANGED <<vars, pipeVars>>

\* the URLs given to a run: a file name and whether the request succeeds
Url(name, ok) == [name |-> name, ok |-> ok]

Urls == {Url(n, b) : n \in {"r.pdf", "s.pdf"}, b \in BOOLEAN}

UrlLists ==
    {<<>>} \cup {<<u>> : u \in Urls} \cup {<<u, v>> : u \in Urls, v \in Urls}
        \cup {<<u, v, w>> : u \in Urls, v \in Urls, w \in Urls}

InitRun ==
    /\ fn = "run"
    /\ raw = NoneV
    /\ out = Pending
    /\ again = Pending
    /\ cand = NoCand
    /\ vout = Pending
    /\ PipelineIdle
    /\ urls \in UrlLists
    /\ task = [i \in 1..Len(urls) |-> "start"]
    /\ target = [i \in 1..Len(urls) |-> NoneV]
    /\ reports = <<>>
    /\ errors = <<>>
    /\ status = "downloading"
    /\ final_excel = NoneV
    /\ presult = Pending
    /\ pd = [c \in Callers |-> "out"]
    /\ lock = "free"
    /\ executed = 0
    /\ calls = 0
    /\ registered = TRUE
    /\ base_dir = TRUE

NextRun ==
    \/ \E i \in 1..Len(urls) : Request(i)
    \/ \E i \in 1..Len(urls) : Write(i)
    \/ DownloadReturn
    \/ \E c \in Callers : EnsureRun(c)
    \/ \E c \in Callers : WithLock(c)
    \/ \E c \in Callers : _process_documents_sync(c)
    \/ \E c \in Callers : ThreadReturn(c)
    \/ cleanup_run

SpecRun == InitRun /\ [][NextRun]_allvars

(***************************************************************************)
(* Properties of the coercions.                                            *)
(***************************************************************************)

\* C1: _to_decimal raises no exception for any string input, however malformed:
\* None, the empty string and every string that does not parse as a decimal
\* after the suffix rules yield Unset (None), the others a Decimal.
C1_NeverRaises ==
    (fn = "decimal" /\ raw.t \in {"str", "none"}) => out.t \in {"pending", "none", "dec"}

\* a decimal numeral: an optional sign, digits with an optional decimal point
C2_IsNumeral(n) ==
    LET signed == n # <<>> /\ n[1] \in {"-", "+"}
        body == IF signed THEN Tail(n) ELSE n
        dot == FirstIn(body, {"."})
        intp == IF dot = 0 THEN body ELSE SubSeq(body, 1, dot - 1)
        frac == IF dot = 0 THEN <<>> ELSE SubSeq(body, dot + 1, Len(body))
    IN  AllDigits(intp) /\ AllDigits(frac) /\ Len(intp) + Len(frac) >= 1

C2_DigitCount(n) == Len(SelectSeq(n, IsDigit))

\* the suffix classes of the specification: the suffix (lower case), what is
\* stripped from the numeric part, and the power of ten the numeral is scaled by
C2_Classes ==
    << [suf |-> <<"%">>, strip |-> {","}, shift |-> -2],
       [suf |-> <<"b", "p">>, strip |-> {","}, shift |-> -4],
       [suf |-> <<"x">>, strip |-> {","}, shift |-> 0],
       [suf |-> <<"k">>, strip |-> {",", "$", "€", "£"}, shift |-> 3],
       [suf |-> <<"m">>, strip |-> {",", "$", "€", "£"}, shift |-> 6],
       [suf |-> <<"b">>, strip |-> {",", "$", "€", "£"}, shift |-> 9] >>

C2_TrimZeros(c, e) ==
    LET nz == {i \in 1..Len(c) : c[i] # 0}
        last == CHOOSE i \in nz : \A j \in nz : j <= i
    IN  <<SubSeq(c, 1, last), e + Len(c) - last>>

\* numeric equality of two Decimals (Decimal.__eq__): 1.20 = 1.2, -0 = 0
C2_Same(a, b) ==
    IF IsZeroCoef(a.coef) \/ IsZeroCoef(b.coef)
    THEN IsZeroCoef(a.coef) /\ IsZeroCoef(b.coef)
    ELSE a.sign = b.sign /\ C2_TrimZeros(a.coef, a.exp) = C2_TrimZeros(b.coef, b.exp)

\* the numeral n times 10^shift, exactly
C2_Exact(n, shift) ==
    LET d == PyDecimal(n) IN DecV(d.sign, d.coef, d.exp + shift)

\* the numeric part of the input for class c, when the input is of that class
C2_Numeral(c) == SelectSeq(DropLast(raw.s, Len(c.suf)), LAMBDA x : x \notin c.strip)

C2_InClass(c) ==
    /\ fn = "decimal" /\ raw.t = "str" /\ out.t # "pending"
    /\ EndsWith(Lower(raw.s), c.suf)
    /\ C2_IsNumeral(C2_Numeral(c))

C3_Idempotent == again.t # "pending" => again = out

\* a Decimal whose str() is in scientific notation has been coerced again
C3_Witness == again.t = "dec" /\ out.t = "dec" /\ out.exp > 0

\* the last day of month m of year y: 29 February in leap years
C4_LastDay(y, m) ==
    IF m = 2
    THEN (IF y % 400 = 0 \/ (y % 4 = 0 /\ y % 100 # 0) THEN 29 ELSE 28)
    ELSE IF m \in {4, 6, 9, 11} THEN 30 ELSE 31

C4_QuarterEnd == << <<3, 31>>, <<6, 30>>, <<9, 30>>, <<12, 31>> >>

\* 'Q<q> <y>' for a calendar year y written with four digits
C4_IsQuarter(s) ==
    /\ Len(s) = 7 /\ s[1] = "Q" /\ s[2] \in {"1", "2", "3", "4"} /\ s[3] = " "
    /\ AllDigits(SubSeq(s, 4, 7)) /\ ToNat(SubSeq(s, 4, 7)) >= 1

\* '<y>-<mm>' for a calendar year y and a month 01..12
C4_IsYearMonth(s) ==
    /\ Len(s) = 7 /\ AllDigits(SubSeq(s, 1, 4)) /\ s[5] = "-" /\ AllDigits(SubSeq(s, 6, 7))
    /\ ToNat(SubSeq(s, 1, 4)) >= 1 /\ ToNat(SubSeq(s, 6, 7)) \in 1..12

\* C4: partial dates resolve to the last calendar day of the implied period:
\* 'Q<q> <y>' is Mar 31, Jun 30, Sep 30, Dec 31 of y and '<y>-<mm>' the last
\* day of month mm of y, 29 February in leap years and 28 February otherwise.
C4_LastDayOfPeriod ==
    (fn = "date" /\ raw.t = "str" /\ out.t # "pending") =>
        /\ C4_IsQuarter(raw.s) =>
              out = DateV(ToNat(SubSeq(raw.s, 4, 7)),
                          C4_QuarterEnd[DigitVal(raw.s[2])][1],
                          C4_QuarterEnd[DigitVal(raw.s[2])][2])
        /\ C4_IsYearMonth(raw.s) =>
              out = DateV(ToNat(SubSeq(raw.s, 1, 4)), ToNat(SubSeq(raw.s, 6, 7)),
                          C4_LastDay(ToNat(SubSeq(raw.s, 1, 4)), ToNat(SubSeq(raw.s, 6, 7))))

\* '2024-02' has been coerced to 29 February 2024
C4_Witness ==
    /\ fn = "date" /\ raw = StrV(<<"2", "0", "2", "4", "-", "0", "2">>)
    /\ out = DateV(2024, 2, 29)

\* C5: a leading 'as of' phrase, in any letter case, is stripped before format
\* matching: for every string s in a recognized format, quarter notation
\* included, 'as of ' + s is coerced to the same date as s.
C5_AsOfStripped ==
    (fn = "date" /\ raw.t = "str" /\ out.t = "date") =>
        \A p \in {<<"a", "s", " ", "o", "f", " ">>, <<"A", "S", " ", "O", "F", " ">>} :
            _parse_iso_or_quarter(StrV(p \o raw.s)) = out

\* C6: _parse_iso_or_quarter never raises: every input yields a date or Unset,
\* also one matching a format with an out-of-range component.
C6_NeverRaises == fn = "date" => out.t \in {"pending", "none", "date"}

C7_Formats == <<"%Y-%m-%d", "%Y-%m", "%d/%m/%Y", "%m/%d/%Y", "%B %d, %Y", "%d %B %Y">>

C7_IsDate(y, m, d) == y >= 1 /\ m \in 1..12 /\ d >= 1 /\ d <= C4_LastDay(y, m)

\* a slash date: one or two digits, '/', one or two digits, '/', four digits
C7_IsSlash(s) ==
    LET p == SplitOn(s, "/")
    IN  /\ Len(p) = 3
        /\ Len(p[1]) \in {1, 2} /\ AllDigits(p[1])
        /\ Len(p[2]) \in {1, 2} /\ AllDigits(p[2])
        /\ Len(p[3]) = 4 /\ AllDigits(p[3])

\* C7: the formats are tried in the order quarter, ISO date, ISO year-month,
\* day/month/year, month/day/year, 'Month D, YYYY', 'D Month YYYY' and the
\* first that matches gives the result; a slash date valid under both readings
\* is read as day/month/year, month/day/year is used only when that is invalid.
C7_FirstFormatWins ==
    (fn = "date" /\ raw.t = "str" /\ raw.s # <<>> /\ out.t \in {"none", "date"}) =>
        LET s == Strip(raw.s)
            u == Strip(SubAsOf(s))
            p == SplitOn(s, "/")
            a == ToNat(p[1])
            b == ToNat(p[2])
            y == ToNat(p[3])
        IN  /\ QuarterMatch(s) # <<>> =>
                  out = DateV(QuarterMatch(s)[2], C4_QuarterEnd[QuarterMatch(s)[1]][1],
                              C4_QuarterEnd[QuarterMatch(s)[1]][2])
            /\ QuarterMatch(s) = <<>> =>
                  \A i \in DOMAIN C7_Formats :
                      (/\ strptime(u, C7_Formats[i]).t = "date"
                       /\ \A j \in 1..(i - 1) : strptime(u, C7_Formats[j]).t # "date")
                      => /\ out.t = "date"
                         /\ out.y = strptime(u, C7_Formats[i]).y
                         /\ out.m = strptime(u, C7_Formats[i]).m
                         /\ i # 2 => out.d = strptime(u, C7_Formats[i]).d
            /\ C7_IsSlash(s) =>
                  out = IF C7_IsDate(y, b, a) THEN DateV(y, b, a)
                        ELSE IF C7_IsDate(y, a, b) THEN DateV(y, a, b)
                        ELSE NoneV

\* '02/12/2023', valid under both readings, has been read as 2 December 2023
C7_Witness ==
    /\ fn = "date"
    /\ raw = StrV(<<"0", "2", "/", "1", "2", "/", "2", "0", "2", "3">>)
    /\ out = DateV(2023, 12, 2)

(***************************************************************************)
(* Properties of record validation.                                        *)
(***************************************************************************)

\* the raw value candidate r supplies for the field f, Absent when it supplies none
C8_Raw(r, f) ==
    IF f.alias \in DOMAIN r /\ r[f.alias] # Absent THEN r[f.alias]
    ELSE IF f.name \in DOMAIN r /\ r[f.name] # Absent THEN r[f.name]
    ELSE Absent

\* a and b are equal character for character
C8_SameText(a, b) == Len(a) = Len(b) /\ \A j \in 1..Len(a) : a[j] = b[j]

\* every classification field of the model m built from the candidate r that is
\* set holds a member whose value is the raw string
C8_Exact(fields, r, m) ==
    \A i \in 1..Len(fields) :
        (fields[i].kind = "enum" /\ m.v[fields[i].name].t # "none") =>
            /\ C8_Raw(r, fields[i]).t = "str"
            /\ \E k \in 1..Len(Enums[fields[i].enum]) :
                  /\ C8_SameText(Enums[fields[i].enum][k].value, C8_Raw(r, fields[i]).s)
                  /\ m.v[fields[i].name].s = Enums[fields[i].enum][k].value

\* C8: enum resolution is exact and case-sensitive: a classification field of
\* FundExposure or AssetSnapshot never holds an enumeration member unless the
\* raw input string equals that member's value character for character; no
\* case-folded, partial or nearest match is accepted.
C8_ExactEnum ==
    (fn = "record" /\ vout.t = "model") =>
        /\ C8_Exact(FundExposureFields, cand, vout)
        /\ \A j \in 1..Len(vout.v.asset_snapshots.items) :
              C8_Exact(AssetSnapshotFields, cand.asset_snapshots.items[j],
                       vout.v.asset_snapshots.items[j])

\* a record with 'Equity' and a snapshot with 'Office' has been validated
C8_Witness ==
    /\ fn = "record" /\ vout.t = "model"
    /\ cand.Tipologia_Strumento = StrV(S_Equity)
    /\ vout.v.tipologia_strumento = StrV(S_Equity)
    /\ Len(vout.v.asset_snapshots.items) >= 1
    /\ cand.asset_snapshots.items[1].Real_Estate_Segment = StrV(S_Office)
    /\ vout.v.asset_snapshots.items[1].v.real_estate_segment.t = "enum"
    /\ vout.v.asset_snapshots.items[1].v.real_estate_segment.name = "OFFICE"

\* the classification fields of FundExposure for which the candidate supplies,
\* under the alias, a string that is the value of no member
C9_Unmatched ==
    {i \in 1..Len(FundExposureFields) :
        /\ FundExposureFields[i].kind = "enum"
        /\ FundExposureFields[i].alias \in DOMAIN cand
        /\ cand[FundExposureFields[i].alias].t = "str"
        /\ \A k \in 1..Len(Enums[FundExposureFields[i].enum]) :
              Enums[FundExposureFields[i].enum][k].value # cand[FundExposureFields[i].alias].s}

\* C9: a raw value for a classification field that matches no member, such as
\* 'equity' for a field expecting 'Equity', resolves to Unset for that field:
\* a record that validates without the value validates with it, and the field
\* is None.
C9_UnmatchedIsUnset ==
    (fn = "record" /\ vout.t # "pending") =>
        \A i \in C9_Unmatched :
            model_validate([cand EXCEPT ![FundExposureFields[i].alias] = Absent]).t = "model"
            => /\ vout.t = "model"
               /\ vout.v[FundExposureFields[i].name] = NoneV

\* the aliases of the required fields the candidate r does not supply
C10_Missing(r) ==
    {FundExposureFields[i].alias : i \in {j \in 1..Len(FundExposureFields) :
        FundExposureFields[j].req /\ C8_Raw(r, FundExposureFields[j]) = Absent}}

\* C10: validating a candidate that lacks a required field fails with a
\* validation error that names every missing field, and no FundExposure is
\* produced.
C10_MissingRequiredNamed ==
    (fn = "record" /\ vout.t # "pending" /\ C10_Missing(cand) # {}) =>
        /\ vout.t = "raise"
        /\ vout.exc = "ValidationError"
        /\ \A a \in C10_Missing(cand) :
              \E e \in vout.errors : e.loc = <<a>> /\ e.type = "missing"

\* the keys under which the candidate r supplies a value
C11_Supplied(r) == {k \in DOMAIN r : r[k] # Absent}

\* the reference NAV date and the three identity strings of the specification
C11_Four == {"NAV_Date", "OICR", "OICR_FONDO_TARGET", "Nome_Fondo_Target"}

\* C11: the required fields are exactly the NAV date and the three identity
\* strings OICR, OICR_FONDO_TARGET and Nome_Fondo_Target: a candidate supplying
\* only these four (with a NAV date that parses) validates, every other field
\* is None and asset_snapshots is the empty list.
C11_FourSuffice ==
    (/\ fn = "record" /\ vout.t # "pending"
     /\ C11_Supplied(cand) = C11_Four
     /\ _parse_iso_or_quarter(cand.NAV_Date).t = "date") =>
        /\ vout.t = "model"
        /\ vout.v.asset_snapshots = ListV(<<>>)
        /\ \A i \in 1..Len(FundExposureFields) :
              (FundExposureFields[i].kind # "list"
               /\ FundExposureFields[i].alias \notin C11_Four)
              => vout.v[FundExposureFields[i].name] = NoneV

\* every required field of FundExposure is supplied and the NAV date parses
C12_RequiredValid(r) ==
    /\ \A i \in 1..Len(FundExposureFields) :
          FundExposureFields[i].req => C8_Raw(r, FundExposureFields[i]) # Absent
    /\ _parse_iso_or_quarter(r.NAV_Date).t = "date"

\* the optional amount and classification fields of FundExposure supplied with
\* a string that is no amount, respectively no member
C12_Unparsed(r) ==
    {i \in 1..Len(FundExposureFields) :
        /\ ~FundExposureFields[i].req
        /\ C8_Raw(r, FundExposureFields[i]).t = "str"
        /\ \/ /\ FundExposureFields[i].kind = "dec"
              /\ _to_decimal(C8_Raw(r, FundExposureFields[i])).t # "dec"
           \/ /\ FundExposureFields[i].kind = "enum"
              /\ \A k \in 1..Len(Enums[FundExposureFields[i].enum]) :
                    Enums[FundExposureFields[i].enum][k].value
                        # C8_Raw(r, FundExposureFields[i]).s}

\* C12: optional-field coercion failures never raise during record assembly:
\* for a candidate whose required fields are valid, validation succeeds whatever
\* its optional fields and its snapshot fields hold, and each optional field
\* that cannot be parsed under its type's rule is None.
C12_OptionalNeverRaises ==
    (fn = "record" /\ vout.t # "pending" /\ C12_RequiredValid(cand)) =>
        /\ vout.t = "model"
        /\ \A i \in C12_Unparsed(cand) : vout.v[FundExposureFields[i].name] = NoneV

(***************************************************************************)
(* Properties of the pipeline.                                             *)
(***************************************************************************)
\* the records of a document that validate on their own
C13_Valid(md) ==
    IF md.k = "batch"
    THEN SelectSeq(md.items, LAMBDA c : ValidateExposure(c).k = "ok")
    ELSE <<>>

C13_Invalid(md) ==
    md.k = "batch" /\ \E i \in 1..Len(md.items) : ValidateExposure(md.items[i]).k # "ok"

RECURSIVE C13_Count(_)
C13_Count(ds) == IF ds = <<>> THEN 0 ELSE Len(C13_Valid(Head(ds))) + C13_Count(Tail(ds))

\* C13: failure isolation is at record granularity: at the end of a run over
\* an output folder holding no other JSON file, the table has exactly one row
\* for every record that validates on its own, whatever else its batch holds,
\* and a failure is reported for every batch holding an invalid record (a
\* batch of 3 records whose record 2 is invalid gives 2 rows and a failure).
C13_RecordGranularity ==
    (fn = "pipeline" /\ pc = "done" /\ outdir[FileNames[1]] = NoFile) =>
        /\ Len(all_rows) = C13_Count(mds)
        /\ \A i \in 1..Len(mds) : C13_Invalid(mds[i]) => i \in reported

\* the records held by the JSON files of the output folder
C14_Records ==
    UNION {{load_json_records(outdir[n]).v[i] : i \in 1..Len(load_json_records(outdir[n]).v)} :
             n \in {m \in DOMAIN outdir : outdir[m].k = "json"}}

\* asset_snapshots is empty or absent
C14_NoSnapshots(rec) ==
    rec.t = "map" /\ Get(rec, "asset_snapshots") \in {NoneV, ListV(<<>>)}

C14_SnapshotColumns == Aliases(AssetSnapshotFields) \cap ColumnSet

\* C14: flattening is total: for every record whose asset_snapshots list is
\* empty or absent, flatten_record returns without raising a row in which
\* every snapshot-scoped column is None and every top-level column holds the
\* record's value.
C14_FlattenTotal ==
    fn = "pipeline" =>
        \A rec \in C14_Records :
            C14_NoSnapshots(rec) =>
                /\ flatten_record(rec).k = "ok"
                /\ DOMAIN flatten_record(rec).v = ColumnSet
                /\ \A k \in C14_SnapshotColumns : flatten_record(rec).v[k] = NoneV
                /\ \A k \in ColumnSet \ C14_SnapshotColumns :
                       flatten_record(rec).v[k] = Get(rec, k)

\* a record with an empty snapshot list and one without the key were
\* flattened into rows of the table, with their top-level values
C14_Witness ==
    /\ fn = "pipeline"
    /\ pc = "done"
    /\ \E rec \in C14_Records, i \in 1..Len(all_rows) :
           /\ rec.t = "map"
           /\ Get(rec, "asset_snapshots") = ListV(<<>>)
           /\ flatten_record(rec).k = "ok"
           /\ all_rows[i] = flatten_record(rec).v
           /\ all_rows[i]["Nome_Fondo_Target"] = StrV(<<"E">>)
    /\ \E rec \in C14_Records, i \in 1..Len(all_rows) :
           /\ rec.t = "map"
           /\ "asset_snapshots" \notin DOMAIN rec.m
           /\ flatten_record(rec).k = "ok"
           /\ all_rows[i] = flatten_record(rec).v

RECURSIVE C15_Concat(_)
C15_Concat(groups) ==
    IF groups = <<>> THEN <<>> ELSE Head(groups).columns \o C15_Concat(Tail(groups))

\* the groups that list a column
C15_GroupsOf(c) ==
    {g \in 1..Len(COLUMN_GROUPS) :
        \E j \in 1..Len(COLUMN_GROUPS[g].columns) : COLUMN_GROUPS[g].columns[j] = c}

\* C15: the column groups partition the fixed projection: every column of
\* COLUMNS belongs to exactly one group of COLUMN_GROUPS, no group contains a
\* name outside COLUMNS, each group has an entry in FILL_COLORS, and the
\* concatenation of the groups' column lists in group order is COLUMNS.
C15_GroupsPartition ==
    fn = "pipeline" =>
        /\ \A i \in 1..Len(COLUMNS) : Cardinality(C15_GroupsOf(COLUMNS[i])) = 1
        /\ \A g \in 1..Len(COLUMN_GROUPS) :
               /\ \A j \in 1..Len(COLUMN_GROUPS[g].columns) :
                      COLUMN_GROUPS[g].columns[j] \in ColumnSet
               /\ COLUMN_GROUPS[g].group \in DOMAIN FILL_COLORS
        /\ \A g, h \in 1..Len(COLUMN_GROUPS) :
               COLUMN_GROUPS[g].group = COLUMN_GROUPS[h].group => g = h
        /\ C15_Concat(COLUMN_GROUPS) = COLUMNS

\* export_excel wrote a table: its rows have the columns of COLUMNS, each of
\* which is in one group
C15_Witness ==
    /\ fn = "pipeline"
    /\ pc = "done"
    /\ final = PathV("portfolio_output.xlsx")
    /\ \A i \in 1..Len(all_rows) :
           DOMAIN all_rows[i] = UNION {{COLUMN_GROUPS[g].columns[j] :
                                          j \in 1..Len(COLUMN_GROUPS[g].columns)} :
                                       g \in 1..Len(COLUMN_GROUPS)}

\* the records found in a JSON document: the entries of a list, or the one
\* mapping
C16_RecordsOf(file) ==
    IF file.k # "json" THEN <<>>
    ELSE IF file.data.t = "list" THEN file.data.items
    ELSE IF file.data.t = "map" THEN <<file.data>>
    ELSE <<>>

\* one flat row per record of the document, in the order of the records
C16_RowsOf(file) ==
    [i \in 1..Len(C16_RecordsOf(file)) |-> flatten_record(C16_RecordsOf(file)[i]).v]

RECURSIVE C16_Table(_, _)
C16_Table(dir, names) ==
    IF names = <<>> THEN <<>>
    ELSE C16_RowsOf(dir[Head(names)]) \o C16_Table(dir, Tail(names))

C17_NoOutputIsNoFailure ==
    (fn = "pipeline" /\ pc = "done" /\ all_rows = <<>>) =>
        /\ final = NoneV
        /\ outcome.t # "raise"

\* C18: round trip: for every canonical record, dumping it by alias, writing
\* it with save_json, reading it back with load_json_records and flattening
\* it gives a row identical, column by column, to the row obtained by
\* flattening the dumped record itself.
C18_RoundTrip ==
    fn = "pipeline" =>
        \A i \in 1..Len(mds) :
            (i < fm /\ process_md_file(mds[i]).k = "ok") =>
                /\ load_json_records(outdir[JsonName(i)]).k = "ok"
                /\ Len(load_json_records(outdir[JsonName(i)]).v) = Len(process_md_file(mds[i]).v)
                /\ \A j \in 1..Len(process_md_file(mds[i]).v) :
                       flatten_record(load_json_records(outdir[JsonName(i)]).v[j])
                           = flatten_record(process_md_file(mds[i]).v[j])

\* the positions of the records of a JSON document on which flatten_record
\* raises
C20_Bad(file) ==
    {i \in 1..Len(C16_RecordsOf(file)) : flatten_record(C16_RecordsOf(file)[i]).k = "exc"}

\* the document fails to load or to flatten
C20_Fails(file) == file.k = "corrupt" \/ C20_Bad(file) # {}

\* the rows of a document: none when it fails, under the reading that a
\* failing file is skipped as a whole
C20_SkippedRows(file) == IF C20_Fails(file) THEN <<>> ELSE C16_RowsOf(file)

RECURSIVE C20_TableSkipping(_, _)
C20_TableSkipping(dir, names) ==
    IF names = <<>> THEN <<>>
    ELSE C20_SkippedRows(dir[Head(names)]) \o C20_TableSkipping(dir, Tail(names))

\* field_matching went through every markdown file: the batch of each file
\* that validates is saved, each other file is reported and saves nothing
C20_EveryMdProcessed ==
    /\ fm = Len(mds) + 1
    /\ \A i \in 1..Len(mds) :
           IF process_md_file(mds[i]).k = "ok"
           THEN i \notin reported /\ outdir[JsonName(i)] = save_json(process_md_file(mds[i]).v)
           ELSE i \in reported /\ outdir[JsonName(i)] = NoFile

\* export_excel went through every JSON file and reported those that fail
C20_EveryFileVisited ==
    /\ ex = Len(JsonFiles(outdir)) + 1
    /\ skipped = {n \in DOMAIN outdir : C20_Fails(outdir[n])}

\* C20: errors local to one document never abort the batch: in
\* field_matching an exception raised for one markdown file is caught and
\* every remaining file is still processed and saved, and in export_excel a
\* JSON file that fails to load or flatten is skipped (no row of it is in
\* the table) while every remaining file is still exported.
C20_FailingFileSkipped ==
    (fn = "pipeline" /\ pc \in {"caller", "done"}) =>
        /\ C20_EveryMdProcessed
        /\ C20_EveryFileVisited
        /\ all_rows = C20_TableSkipping(outdir, FileNames)

(***************************************************************************)
(* Properties of a run of the server.                                      *)
(***************************************************************************)
C19_Failed == {i \in 1..Len(urls) : ~urls[i].ok}

\* C19: one failing URL does not abort the batch: after a download in which
\* some URLs failed and others succeeded, every failure is listed in the
\* errors of the run, every other URL was still downloaded to the path its
\* task chose, and process_documents processes the documents that were
\* downloaded instead of rejecting the run.
C19_PartialBatchProcessed ==
    (/\ fn = "run"
     /\ presult \notin {Pending, Raise("ValueError")}
     /\ base_dir
     /\ C19_Failed # {}
     /\ C19_Failed # 1..Len(urls)) =>
        /\ {errors[j] : j \in 1..Len(errors)} = C19_Failed
        /\ \A i \in (1..Len(urls)) \ C19_Failed : target[i] \in DOMAIN reports
        /\ presult # Raise("RuntimeError")
        /\ status # "download_errors"

(***************************************************************************)
(* Properties of flatten_record on records with snapshots.                 *)
(***************************************************************************)
\* the snapshots of a record
C21_Snapshots(rec) == Get(rec, "asset_snapshots").items

\* the records of the output folder that hold snapshots
C21_WithSnapshots ==
    {rec \in C14_Records :
        /\ rec.t = "map"
        /\ Get(rec, "asset_snapshots").t = "list"
        /\ Len(C21_Snapshots(rec)) > 0}

\* the record with other snapshots
C21_With(rec, snapshots) ==
    MapV([k \in DOMAIN rec.m |-> IF k = "asset_snapshots" THEN ListV(snapshots) ELSE rec.m[k]])

\* later snapshots: mappings with values for columns, and an entry that is
\* no mapping
C21_Tails ==
    {<<MapV([EV |-> StrV(<<"9">>), Area |-> StrV(<<"y">>), TVPI |-> StrV(<<"4">>)])>>,
     <<IntV(7)>>,
     <<MapV([Real_Estate_Segment |-> StrV(S_Hotel)]), MapV([EV |-> NoneV])>>}

\* C21: flatten_record takes the snapshot-scoped columns from the first
\* entry of asset_snapshots only: for a record with two or more snapshots
\* the row equals the row of the same record with only its first snapshot,
\* whatever the later snapshots contain.
C21_FirstSnapshotOnly ==
    fn = "pipeline" =>
        \A rec \in C21_WithSnapshots :
            /\ flatten_record(rec)
                   = flatten_record(C21_With(rec, <<C21_Snapshots(rec)[1]>>))
            /\ \A tail \in C21_Tails :
                   flatten_record(C21_With(rec, <<C21_Snapshots(rec)[1]>> \o tail))
                       = flatten_record(C21_With(rec, <<C21_Snapshots(rec)[1]>>))

\* a record whose second snapshot holds a segment that the first does not
\* was flattened into a row of the table, which has no segment
C21_Witness ==
    /\ fn = "pipeline"
    /\ pc = "done"
    /\ \E rec \in C21_WithSnapshots, i \in 1..Len(all_rows) :
           /\ Len(C21_Snapshots(rec)) >= 2
           /\ Get(C21_Snapshots(rec)[1], "Real_Estate_Segment") = NoneV
           /\ Get(C21_Snapshots(rec)[2], "Real_Estate_Segment") # NoneV
           /\ Get(C21_Snapshots(rec)[2], "EV") # Get(C21_Snapshots(rec)[1], "EV")
           /\ flatten_record(rec).k = "ok"
           /\ all_rows[i] = flatten_record(rec).v
           /\ all_rows[i]["Real_Estate_Segment"] = NoneV
           /\ all_rows[i]["EV"] = Get(C21_Snapshots(rec)[1], "EV")

\* the records of the output folder whose first snapshot is a mapping
C22_WithMapping == {rec \in C21_WithSnapshots : C21_Snapshots(rec)[1].t = "map"}

\* C22: in flatten_record a snapshot value that is None never overwrites:
\* for each column, if the first snapshot has a non-None value for it the
\* row holds that value, otherwise the row keeps the value taken from the
\* top-level record; columns absent from the snapshot are unchanged.
C22_NoneNeverOverwrites ==
    fn = "pipeline" =>
        \A rec \in C22_WithMapping :
            /\ flatten_record(rec).k = "ok"
            /\ \A k \in ColumnSet :
                   flatten_record(rec).v[k] =
                       IF k \in DOMAIN C21_Snapshots(rec)[1].m
                       THEN IF C21_Snapshots(rec)[1].m[k] # NoneV
                            THEN C21_Snapshots(rec)[1].m[k]
                            ELSE Get(rec, k)
                       ELSE Get(rec, k)

\* the table holds the row of a record whose first snapshot has a null for a
\* column that the top level fills, a value for a column that the top level
\* fills too, and no entry for a column of the top level
C22_Witness ==
    /\ fn = "pipeline"
    /\ pc = "done"
    /\ \E rec \in C22_WithMapping, i \in 1..Len(all_rows) :
           /\ all_rows[i] = flatten_record(rec).v
           /\ \E k \in DOMAIN C21_Snapshots(rec)[1].m \cap DOMAIN rec.m :
                  /\ C21_Snapshots(rec)[1].m[k] = NoneV
                  /\ rec.m[k] # NoneV
                  /\ all_rows[i][k] = rec.m[k]
           /\ \E k \in DOMAIN C21_Snapshots(rec)[1].m \cap DOMAIN rec.m :
                  /\ C21_Snapshots(rec)[1].m[k] # NoneV
                  /\ rec.m[k] \notin {NoneV, C21_Snapshots(rec)[1].m[k]}
                  /\ all_rows[i][k] = C21_Snapshots(rec)[1].m[k]
           /\ \E k \in (DOMAIN rec.m \cap ColumnSet) \ DOMAIN C21_Snapshots(rec)[1].m :
                  /\ rec.m[k] # NoneV
                  /\ all_rows[i][k] = rec.m[k]

(***************************************************************************)
(* COLUMNS and the schema.                                                 *)
(***************************************************************************)
\* the aliases of a list of fields, in the order of their declaration
C23_AliasSeq(fields) == [i \in 1..Len(fields) |-> fields[i].alias]

\* the fields of FundExposure but the list of snapshots
C23_Scalars == SelectSeq(FundExposureFields, LAMBDA f : f.name # "asset_snapshots")

\* C23: the fixed column list agrees with the schema: COLUMNS contains,
\* without duplicates, exactly the aliases of the scalar fields of
\* FundExposure in declaration order followed by the aliases of the fields of
\* AssetSnapshot in declaration order, no name belongs to both vocabularies,
\* and every flat row is keyed by exactly COLUMNS.
C23_ColumnsAreTheSchema ==
    fn = "pipeline" =>
        /\ COLUMNS = C23_AliasSeq(C23_Scalars) \o C23_AliasSeq(AssetSnapshotFields)
        /\ \A i, j \in 1..Len(COLUMNS) : COLUMNS[i] = COLUMNS[j] => i = j
        /\ Aliases(C23_Scalars) \cap Aliases(AssetSnapshotFields) = {}
        /\ \A i \in 1..Len(all_rows) :
               DOMAIN all_rows[i] = {COLUMNS[k] : k \in 1..Len(COLUMNS)}

\* the table holds a row flattened from a validated record, with a value
\* under a top-level alias and a value under a snapshot alias
C23_Witness ==
    /\ fn = "pipeline"
    /\ pc = "done"
    /\ \E i \in 1..Len(all_rows) :
           /\ \E k \in Aliases(C23_Scalars) : all_rows[i][k] # NoneV
           /\ \E k \in Aliases(AssetSnapshotFields) : all_rows[i][k] # NoneV

\* the callers whose call is executing the pipeline
C24_Executing == {c \in Callers : pd[c] = "thread"}

\* a call that waited for the lock leaves process_documents without starting
\* the pipeline
C24_ReturnsAtOnce ==
    \E c \in Callers : pd[c] = "lock" /\ pd'[c] = "out"

\* C24: for one run, across any interleaving of concurrent or repeated
\* process_documents calls, _process_documents_sync is never executed by two
\* calls at the same time and is executed at most once in total; a call
\* arriving after the run reached "done" returns the existing Excel path
\* without re-running it.
C24_AtMostOnce ==
    /\ [](fn = "run" => Cardinality(C24_Executing) <= 1 /\ executed <= 1)
    /\ [][(fn = "run" /\ status = "done" /\ (\E c \in Callers : pd[c] = "lock" /\ pd'[c] # "lock"))
            => (/\ C24_ReturnsAtOnce
                /\ presult' = final_excel
                /\ final_excel.t = "path"
                /\ executed' = executed
                /\ status' = "done")]_allvars

\* every call was made and returned, the pipeline ran once and gave the
\* table, and the last call returned its path
C24_Witness ==
    /\ fn = "run"
    /\ calls = MaxCalls
    /\ \A c \in Callers : pd[c] = "out"
    /\ executed = 1
    /\ status = "done"
    /\ registered
    /\ presult = final_excel
    /\ final_excel = PathV("portfolio_output.xlsx")

\* the processing of the run failed with an exception
C25_Failed == status \in {ErrorStatus(Raise(e)) : e \in DOMAIN Message}

\* C25: a run whose processing failed with an exception is left in a
\* restartable state: a later process_documents call on the same run starts
\* the pipeline again instead of returning "already_processing".
C25_FailedRunRestarts ==
    [][(fn = "run" /\ C25_Failed /\ (\E c \in Callers : pd[c] = "lock" /\ pd'[c] # "lock"))
         => (/\ \E c \in Callers : pd[c] = "lock" /\ pd'[c] = "thread"
             /\ presult' # AlreadyProcessing)]_allvars

\* the downloads that chose a target path
C26_Chosen == {i \in 1..Len(urls) : task[i] \in {"open", "done"}}

\* C26: within one download_supabase_s3_documents call, concurrent downloads
\* of URLs that have the same file name are written to pairwise distinct
\* paths of the reports directory: under every interleaving no download
\* overwrites or shares the target file chosen by another.
C26_DistinctTargets ==
    fn = "run" =>
        \A i, j \in C26_Chosen :
            (i # j /\ urls[i].name = urls[j].name) => target[i] # target[j]

\* C27: cleanup_run never deletes the directory of a run or removes the run
\* from the registry while process_documents is executing the pipeline for
\* that run: cleanup and processing of one run are mutually exclusive.
C27_NoCleanupWhileProcessing ==
    [][(fn = "run" /\ \E c \in Callers : pd[c] = "thread")
         => (registered' = registered /\ base_dir' = base_dir)]_allvars

====
